---- MODULE Spec2Model ----
(***************************************************************************)
(* playbacc: the enrichment job queue (lib/mb-enrichment-queue), the       *)
(* enrichment worker loop (worker/musicbrainz-worker), the playback        *)
(* session engine (lib/playback) and the recently-played reconciler        *)
(* (lib/scrobbles), modelled as state machines over the database tables.   *)
(* All times are milliseconds on one clock, `now`.                         *)
(***************************************************************************)
EXTENDS Integers, Sequences, FiniteSets, TLC

VARIABLES
    now,          \* the wall clock, ms
    ticks,        \* how often the clock has advanced
    jobs,         \* table mb_enrichment_jobs: id -> row
    nextJobId,    \* the next primary key of mb_enrichment_jobs
    wpc,          \* worker -> position in runWorkerLoop
    wbatch,       \* worker -> the claimed jobs still to process (row snapshots)
    wsel,         \* worker -> rows its in-flight claim statement holds FOR UPDATE
    wnow,         \* worker -> the `now` its in-flight claimJobs call computed
    wfail,        \* worker -> what its in-flight failJob call read
    lastCleanupTime, \* worker -> time of its last TTL cleanup
    epc,          \* enqueuer -> position in enqueueJob
    ekey,         \* enqueuer -> the options of its in-flight enqueueJob call
    eres,         \* enqueuer -> the EnqueueResult of its last call
    econf,        \* enqueuer -> the active job its last insert conflicted with
    tracks,       \* table tracks: id -> row
    track_artists, \* table track_artists: the tracks linked to their artists
    track_albums, \* table track_albums: the tracks linked to their album
    scrobbles,    \* table scrobbles: id -> row
    session,      \* table playback_sessions: the user's row, if any
    cursor,       \* table scrobble_state: the user's last_played_at
    history,      \* the provider's recently-played list, oldest first
    polls,        \* how many currently-playing polls have run
    runs,         \* how many processAccountScrobbles calls have begun
    rpc,          \* position of the processAccountScrobbles call in flight
    rplays,       \* the plays it fetched
    rbatch,       \* the processed events it has still to go through
    rlatest,      \* its latestPlayedAt
    rtrack,       \* the track id its persistScrobble call got from upsertTrack
    rdup,         \* that call's isDuplicate
    rlast,        \* the plays of the last call that went through its batch
    rreplay,      \* the call in flight fetched the same plays as that call
    flast,        \* the last finalizeSession call: session start and outcome
    plast,        \* the last persistScrobble(FromMetadata) call: key and result
    artists,      \* table artists: id -> row
    albums,       \* table albums: id -> row
    syncs,        \* the MBIDs triggerAutoSync has started a sync for
    ulast,        \* the last upsert call: function, arguments, result
    ucalls,       \* how many upsert calls have been made
    artists_groups, \* table artists_groups: id -> row
    mlast,        \* the last upsertMembershipPeriod call: arguments and result
    mcalls,       \* how many upsertMembershipPeriod calls have been made
    mread,        \* per sync run: the arguments and existingPeriods of its call
    rlq,          \* the RateLimitQueue: queue, processing, lastRequestTime, timer
    rlc,          \* each caller of rateLimitedFetch: where it is, its attempt
    rlg,          \* the slot grants so far: how many, the last one and its time
    rticks,       \* how often the clock of the rate limiter has advanced
    accounts,     \* table accounts: account -> its token columns
    taccounts,    \* the fast loop: the loaded accounts it has still to process
    tlast,        \* the last getValidAccessToken call: account, grant, result
    tissued,      \* how many tokens the provider has issued
    tcycles,      \* how many cycles of the fast loop have begun
    isRunning,    \* worker -> the shutdown flag of its process
    presp         \* the answer of the currently-playing endpoint last observed

queueVars == <<jobs, nextJobId, wpc, wbatch, wsel, wnow, wfail, lastCleanupTime,
               epc, ekey, eres, econf>>
clockVars == <<now, ticks>>
dbVars == <<tracks, track_artists, track_albums, scrobbles>>
reconcilerVars == <<cursor, runs, rpc, rplays, rbatch, rlatest, rtrack, rdup,
                    rlast, rreplay>>
upsertVars == <<artists, albums, syncs, ulast, ucalls>>
membershipVars == <<artists_groups, mlast, mcalls, mread>>
rateVars == <<rlq, rlc, rlg, rticks>>
tokenVars == <<accounts, taccounts, tlast, tissued, tcycles>>
extVars == <<membershipVars, rateVars, tokenVars, isRunning, presp>>
ingestVars == <<dbVars, session, history, polls, reconcilerVars, flast, plast,
                upsertVars, extVars>>

(***************************************************************************)
(* Bounds of the model                                                     *)
(***************************************************************************)
MaxJobs == 2
MaxTicks == 1
MaxPolls == 4
MaxPlays == 2
MaxRuns == 2
MaxRetries == 8
MaxUpserts == 3
MaxLongPolls == 8
MaxSyncCalls == 3
MaxRateTicks == 6
MaxCycles == 4
MaxAccPolls == 5
MaxIdlePolls == 6

Workers == {"w1", "w2"}
Enqueuers == {"e1"}
NoWorker == "none"
Null == -1

\* (job_type, entity_type, entity_id) triples that are enqueued
JobKeys == { <<"artist.sync_relationships", "artist", 1>>,
             <<"artist.resolve_mbid", "artist", 1>> }

(***************************************************************************)
(* QUEUE_CONFIG and the worker's WORKER_CONFIG                             *)
(***************************************************************************)
defaultMaxAttempts == 3
baseBackoffMs == 60000
maxBackoffMs == 3600000
backoffMultiplier == 2
jobTtlDays == 3
lockTimeoutMinutes == 30
cleanupIntervalMs == 3600000
batchSize == 25
manualPriority == 10
defaultPriority == 0

\* The maxAttempts option of enqueueJob: a job that fails for good at its
\* first failure, and the default.
AttemptOptions == {1, defaultMaxAttempts}

lockTimeoutMs == lockTimeoutMinutes * 60 * 1000
ttlMs == jobTtlDays * 24 * 60 * 60 * 1000

\* The process starts at a time later than one cleanup interval after the
\* epoch, as every real clock is.
StartTime == cleanupIntervalMs
\* The amounts by which the clock advances between two steps.
TimeSteps == {lockTimeoutMs + 1, ttlMs + 1}

Min(a, b) == IF a <= b THEN a ELSE b
Max(a, b) == IF a >= b THEN a ELSE b

RECURSIVE Pow(_, _)
Pow(b, e) == IF e <= 0 THEN 1 ELSE b * Pow(b, e - 1)

(***************************************************************************)
(* Table mb_enrichment_jobs                                                *)
(***************************************************************************)
JobIds == DOMAIN jobs

KeyOf(row) == <<row.job_type, row.entity_type, row.entity_id>>

IsActive(row) == row.status \in {"pending", "running"}

\* The partial unique index idx_mb_jobs_active_dedupe: the active rows of
\* table `js`, other than row `except`, that hold `key`.
ActiveWithKey_NoIndex(js, key, except) == {}
ActiveWithKey(js, key, except) ==
    {j \in DOMAIN js : j # except /\ IsActive(js[j]) /\ KeyOf(js[j]) = key}

\* mb_enrichment_jobs's column defaults, as enqueueJob's insert fills them.
NewJob(key, priority, maxAttempts, t) ==
    [ job_type |-> key[1], entity_type |-> key[2], entity_id |-> key[3],
      status |-> "pending", priority |-> priority, attempts |-> 0,
      max_attempts |-> maxAttempts, run_after |-> t, locked_at |-> Null,
      locked_by |-> NoWorker, last_error |-> "", created_at |-> t,
      updated_at |-> t ]

NoJob == 0
NoResult == [created |-> FALSE, jobId |-> NoJob, reason |-> "none"]

RECURSIVE SetToSeq(_)
\* The rows of a statement's RETURNING clause, in primary-key order.
SetToSeq(S) ==
    IF S = {} THEN <<>>
    ELSE LET m == CHOOSE x \in S : \A y \in S : x <= y
         IN <<m>> \o SetToSeq(S \ {m})

Snapshot(id, row) ==
    [id |-> id, job_type |-> row.job_type, entity_type |-> row.entity_type,
     entity_id |-> row.entity_id]

(***************************************************************************)
(* enqueueJob: the insert with onConflictDoNothing, then (after an await)  *)
(* the lookup of the existing active job.                                  *)
(***************************************************************************)
EnqueueInsert(e, key, priority, maxAttempts) ==
    /\ epc[e] = "idle"
    /\ LET conflict == ActiveWithKey(jobs, key, NoJob) IN
       IF conflict = {}
       THEN /\ nextJobId <= MaxJobs
            /\ jobs' = (nextJobId :> NewJob(key, priority, maxAttempts, now)) @@ jobs
            /\ nextJobId' = nextJobId + 1
            /\ eres' = [eres EXCEPT ![e] =
                          [created |-> TRUE, jobId |-> nextJobId, reason |-> ""]]
            /\ econf' = [econf EXCEPT ![e] = NoJob]
            /\ UNCHANGED <<epc, ekey>>
       ELSE /\ epc' = [epc EXCEPT ![e] = "lookup"]
            /\ ekey' = [ekey EXCEPT ![e] = key]
            /\ econf' = [econf EXCEPT ![e] = CHOOSE j \in conflict : TRUE]
            /\ eres' = [eres EXCEPT ![e] = NoResult]
            /\ UNCHANGED <<jobs, nextJobId>>
    /\ UNCHANGED <<wpc, wbatch, wsel, wnow, wfail, lastCleanupTime, clockVars, ingestVars>>

EnqueueLookup(e) ==
    /\ epc[e] = "lookup"
    /\ LET existingActive == ActiveWithKey(jobs, ekey[e], NoJob) IN
       \E id \in (IF existingActive = {} THEN {NoJob} ELSE existingActive) :
          eres' = [eres EXCEPT ![e] =
                     [created |-> FALSE, jobId |-> id, reason |-> "already_active"]]
    /\ epc' = [epc EXCEPT ![e] = "idle"]
    /\ UNCHANGED <<jobs, nextJobId, ekey, econf, wpc, wbatch, wsel, wnow, wfail,
                   lastCleanupTime, clockVars, ingestVars>>

(***************************************************************************)
(* claimJobs: one UPDATE whose target set is a subquery                    *)
(*   SELECT id ... ORDER BY priority DESC, created_at ASC LIMIT batchSize   *)
(*   FOR UPDATE SKIP LOCKED                                                *)
(* ClaimSelect is the subquery taking its row locks, ClaimCommit the       *)
(* update and the end of the statement.                                    *)
(***************************************************************************)
Claimable_PendingOnly(row, t) == row.status = "pending" /\ row.run_after <= t
Claimable_AnyRunning(row, t) ==
    \/ row.status = "pending" /\ row.run_after <= t
    \/ row.status = "running"
Claimable(row, t) ==
    \/ row.status = "pending" /\ row.run_after <= t
    \/ /\ row.status = "running"
       /\ row.locked_at # Null
       /\ row.locked_at < t - lockTimeoutMs

RanksAhead_Fifo(a, b) == a.created_at < b.created_at
\* ORDER BY priority DESC, created_at ASC
RanksAhead(a, b) ==
    \/ a.priority > b.priority
    \/ a.priority = b.priority /\ a.created_at < b.created_at

\* Rows locked by some in-flight claim statement.
LockedRows == UNION {wsel[w] : w \in Workers}

\* The results the subquery may have: the first n claimable rows that no
\* other statement has locked.
SelectForUpdateSkipLocked(t, n) ==
    LET cand == {j \in JobIds : Claimable(jobs[j], t) /\ j \notin LockedRows}
    IN {S \in SUBSET cand :
          /\ Cardinality(S) = Min(n, Cardinality(cand))
          /\ \A a \in S, b \in cand \ S : ~RanksAhead(jobs[b], jobs[a])}

CleanupDue(w) == now - lastCleanupTime[w] >= cleanupIntervalMs

ClaimSelect(w, limit) ==
    /\ wpc[w] = "claim" \/ (wpc[w] = "top" /\ isRunning[w] /\ ~CleanupDue(w))
    /\ \E S \in SelectForUpdateSkipLocked(now, limit) :
          wsel' = [wsel EXCEPT ![w] = S]
    /\ wnow' = [wnow EXCEPT ![w] = now]
    /\ wpc' = [wpc EXCEPT ![w] = "claiming"]
    /\ UNCHANGED <<jobs, nextJobId, wbatch, wfail, lastCleanupTime, epc, ekey,
                   eres, econf, clockVars, ingestVars>>

ClaimCommit(w) ==
    /\ wpc[w] = "claiming"
    /\ LET claimed == {j \in wsel[w] : j \in JobIds /\ Claimable(jobs[j], wnow[w])}
       IN /\ jobs' = [j \in JobIds |->
                        IF j \in claimed
                        THEN [jobs[j] EXCEPT !.status = "running",
                                             !.locked_at = wnow[w],
                                             !.locked_by = w,
                                             !.updated_at = wnow[w]]
                        ELSE jobs[j]]
          /\ wbatch' = [wbatch EXCEPT ![w] =
                          [i \in 1..Cardinality(claimed) |->
                             Snapshot(SetToSeq(claimed)[i], jobs[SetToSeq(claimed)[i]])]]
          /\ wpc' = [wpc EXCEPT ![w] = IF claimed = {} THEN "top" ELSE "run"]
    /\ wsel' = [wsel EXCEPT ![w] = {}]
    /\ wnow' = [wnow EXCEPT ![w] = 0]
    /\ UNCHANGED <<nextJobId, wfail, lastCleanupTime, epc, ekey, eres, econf,
                   clockVars, ingestVars>>

(***************************************************************************)
(* runWorkerLoop: the batch is processed one job after the other.          *)
(***************************************************************************)
\* The job the worker is at, a snapshot taken when it was claimed.
CurrentJob(w) == Head(wbatch[w])

\* The jobs a claimJobs call returns.
ReturnedIds(batch) == {batch[i].id : i \in DOMAIN batch}

\* End of one iteration of `for (const job of jobs)`.
Advance(w) ==
    /\ wbatch' = [wbatch EXCEPT ![w] = Tail(wbatch[w])]
    /\ wpc' = [wpc EXCEPT ![w] = IF Tail(wbatch[w]) = <<>> THEN "top" ELSE "run"]

\* processJob(job) returned success: completeJob(job.id). Its findFirst only
\* decides between the early return and the UPDATE ... WHERE id = jobId, and
\* the update of a row that has gone in between changes nothing, so the call
\* is one step: the update.
CompleteJob(w) ==
    /\ wpc[w] = "run"
    /\ isRunning[w]
    /\ CurrentJob(w).id \notin LockedRows
    /\ jobs' = [j \in JobIds |->
                  IF j = CurrentJob(w).id
                  THEN [jobs[j] EXCEPT !.status = "succeeded", !.locked_at = Null,
                                       !.locked_by = NoWorker, !.updated_at = now]
                  ELSE jobs[j]]
    /\ Advance(w)
    /\ UNCHANGED <<nextJobId, wsel, wnow, wfail, lastCleanupTime,
                   epc, ekey, eres, econf, clockVars, ingestVars>>

\* No failJob call is in flight.
NoRead == [newAttempts |-> 0, isPermanentlyFailed |-> FALSE, now |-> 0]

BackoffMs_Uncapped(newAttempts) == baseBackoffMs * Pow(backoffMultiplier, newAttempts - 1)
BackoffMs(newAttempts) ==
    Min(baseBackoffMs * Pow(backoffMultiplier, newAttempts - 1), maxBackoffMs)

\* processJob(job) returned an error (or this is the catch block's failJob
\* call): failJob takes `now`, reads the row and computes newAttempts and
\* isPermanentlyFailed. A processJob that throws reaches the catch block's call
\* at once; what that call can do, the first call followed by the catch
\* block's call can do as well.
FailJobFind(w) ==
    /\ wpc[w] \in {"run", "catch"}
    /\ wpc[w] = "run" => isRunning[w]
    /\ IF CurrentJob(w).id \in JobIds
       THEN LET job == jobs[CurrentJob(w).id] IN
            /\ wfail' = [wfail EXCEPT ![w] =
                           [newAttempts |-> job.attempts + 1,
                            isPermanentlyFailed |-> job.attempts + 1 >= job.max_attempts,
                            now |-> now]]
            /\ wpc' = [wpc EXCEPT ![w] =
                         IF wpc[w] = "catch" THEN "failingCatch" ELSE "failing"]
            /\ UNCHANGED wbatch
       ELSE /\ Advance(w)
            /\ UNCHANGED wfail
    /\ UNCHANGED <<jobs, nextJobId, wsel, wnow, lastCleanupTime,
                   epc, ekey, eres, econf, clockVars, ingestVars>>

FailedRow_AlwaysRetry(row, f) ==
    [row EXCEPT !.status = "pending", !.attempts = f.newAttempts,
                !.last_error = "error",
                !.run_after = f.now + BackoffMs(f.newAttempts),
                !.locked_at = Null, !.locked_by = NoWorker, !.updated_at = f.now]

\* The row failJob's UPDATE writes; f is what the call read and computed.
FailedRow(row, f) ==
    IF f.isPermanentlyFailed
    THEN [row EXCEPT !.status = "failed", !.attempts = f.newAttempts,
                     !.last_error = "error", !.locked_at = Null,
                     !.locked_by = NoWorker, !.updated_at = f.now]
    ELSE [row EXCEPT !.status = "pending", !.attempts = f.newAttempts,
                     !.last_error = "error",
                     !.run_after = f.now + BackoffMs(f.newAttempts),
                     !.locked_at = Null, !.locked_by = NoWorker, !.updated_at = f.now]

\* failJob's UPDATE ... WHERE id = jobId. The partial unique index rejects it
\* when it would make a second active row of the key; the error reaches the
\* loop's catch block (which calls failJob again) and from there the outer
\* catch, which drops the rest of the batch.
FailJobUpdate(w) ==
    /\ wpc[w] \in {"failing", "failingCatch"}
    /\ CurrentJob(w).id \notin LockedRows
    /\ LET id == CurrentJob(w).id IN
       IF id \notin JobIds
       THEN /\ Advance(w)
            /\ UNCHANGED jobs
       ELSE LET new == FailedRow(jobs[id], wfail[w]) IN
            IF IsActive(new) /\ ActiveWithKey(jobs, KeyOf(new), id) # {}
            THEN /\ UNCHANGED jobs
                 /\ IF wpc[w] = "failing"
                    THEN /\ wpc' = [wpc EXCEPT ![w] = "catch"]
                         /\ UNCHANGED wbatch
                    ELSE /\ wpc' = [wpc EXCEPT ![w] = "top"]
                         /\ wbatch' = [wbatch EXCEPT ![w] = <<>>]
            ELSE /\ jobs' = [jobs EXCEPT ![id] = new]
                 /\ Advance(w)
    /\ wfail' = [wfail EXCEPT ![w] = NoRead]
    /\ UNCHANGED <<nextJobId, wsel, wnow, lastCleanupTime,
                   epc, ekey, eres, econf, clockVars, ingestVars>>

\* maybeRunCleanup, when due: cleanupOldJobs deletes the terminal rows whose
\* updated_at is older than the TTL.
Expired_AnyStatus(row, t) == row.updated_at < t - ttlMs
Expired(row, t) == row.status \in {"succeeded", "failed"} /\ row.updated_at < t - ttlMs

MaybeRunCleanup(w) ==
    /\ wpc[w] = "top"
    /\ isRunning[w]
    /\ CleanupDue(w)
    /\ lastCleanupTime' = [lastCleanupTime EXCEPT ![w] = now]
    /\ jobs' = [j \in {i \in JobIds : ~Expired(jobs[i], now)} |-> jobs[j]]
    /\ wpc' = [wpc EXCEPT ![w] = "claim"]
    /\ UNCHANGED <<nextJobId, wbatch, wsel, wnow, wfail, epc, ekey, eres, econf,
                   clockVars, ingestVars>>

\* SIGINT or SIGTERM reaches the worker's process while its loop awaits
\* something: a sleep, a statement of the database, the job's processing.
\* The handler clears the flag.
Shutdown(w) ==
    /\ isRunning[w]
    /\ wpc[w] \notin {"dead", "stopped"}
    /\ isRunning' = [isRunning EXCEPT ![w] = FALSE]
    /\ UNCHANGED <<clockVars, queueVars, dbVars, session, history, polls,
                   reconcilerVars, flast, plast, upsertVars, membershipVars,
                   rateVars, tokenVars, presp>>

\* `while (isRunning)` finds the flag cleared: runWorkerLoop returns.
ExitLoop(w) ==
    /\ wpc[w] = "top"
    /\ ~isRunning[w]
    /\ wpc' = [wpc EXCEPT ![w] = "stopped"]
    /\ UNCHANGED <<jobs, nextJobId, wbatch, wsel, wnow, wfail, lastCleanupTime,
                   epc, ekey, eres, econf, clockVars, ingestVars>>

\* `if (!isRunning) break` in the loop over the claimed jobs: the rest of the
\* batch is left as it was claimed.
BreakLoop(w) ==
    /\ wpc[w] = "run"
    /\ ~isRunning[w]
    /\ wbatch' = [wbatch EXCEPT ![w] = <<>>]
    /\ wpc' = [wpc EXCEPT ![w] = "top"]
    /\ UNCHANGED <<jobs, nextJobId, wsel, wnow, wfail, lastCleanupTime,
                   epc, ekey, eres, econf, clockVars, ingestVars>>

Tick(d) ==
    /\ ticks < MaxTicks
    /\ now' = now + d
    /\ ticks' = ticks + 1
    /\ UNCHANGED <<queueVars, ingestVars>>

\* A worker process dies while processJob runs: its job stays running with
\* the worker's lease, and the process takes no further step. At most one
\* worker dies.
Crash(w) ==
    /\ wpc[w] = "run"
    /\ \A v \in Workers : wpc[v] # "dead"
    /\ wpc' = [wpc EXCEPT ![w] = "dead"]
    /\ UNCHANGED <<jobs, nextJobId, wbatch, wsel, wnow, wfail, lastCleanupTime,
                   epc, ekey, eres, econf, clockVars, ingestVars>>

\* A lease that has not yet run out: now - locked_at <= lockTimeoutMinutes.
LeaseHeld(row, t) ==
    row.status = "running" /\ row.locked_at # Null /\ t - row.locked_at <= lockTimeoutMs

\* The clock while some lease is held: it reaches the lease's end or passes it.
LeaseSteps == {lockTimeoutMs, lockTimeoutMs + 1}

LeaseTick(d) ==
    /\ \E j \in JobIds : LeaseHeld(jobs[j], now)
    /\ now' = now + d
    /\ UNCHANGED <<ticks, queueVars, ingestVars>>

(***************************************************************************)
(* SCROBBLE_CONFIG, PLAYBACK_CONFIG and the dedupe windows                 *)
(***************************************************************************)
minPlaySeconds == 30
minPlayPercent == 50
spotifyFetchLimit == 50
pollIntervalMs == 8000
wrapMinToleranceMs == 15000
wrapThresholdPercent == 35
maxDeltaMs == 30000
staleSessionMs == 1800000
skipThresholdPercent == 90
endMarginMs == 15000
finalizeWindowMs == 5000
DEDUPE_WINDOW_MS == 10 * 60 * 1000
minIntervalMs == 1100
fetchMaxRetries == 5
fetchBaseBackoffMs == 2000
fetchMaxBackoffMs == 60000
jitterFactorPercent == 20

\* lib/spotify
TOKEN_EXPIRY_SAFETY_MARGIN_SECONDS == 60

\* The one user whose account the worker polls.
User == "u1"

\* The provider's tracks that are played: their uri, the ISRC in the track's
\* external_ids, the recording MBID the metadata service resolves them to and
\* their duration. A track may carry an ISRC, resolve to an MBID, or neither.
Uris == {"spotify:track:isrc", "spotify:track:mbid", "spotify:track:bare"}

\* Two longer tracks, of 90 s and of 200 s, each with an ISRC.
LongUris == {"spotify:track:90s", "spotify:track:200s"}
Catalog(uri) ==
    [ isrc |-> IF uri = "spotify:track:isrc" THEN 1
               ELSE IF uri = "spotify:track:90s" THEN 2
               ELSE IF uri = "spotify:track:200s" THEN 3
               ELSE Null,
      mbid |-> IF uri = "spotify:track:mbid" THEN 1 ELSE Null,
      duration_ms |-> IF uri = "spotify:track:90s" THEN 90 * 1000
                      ELSE IF uri = "spotify:track:200s" THEN 200 * 1000
                      ELSE 40 * 1000 ]

\* The progress the polls see while a long track plays or loops.
ProgressOf(uri) ==
    IF uri = "spotify:track:90s"
    THEN {0, 24000, 48000, 78000}
    ELSE {0, 5000, 30000, 60000, 90000, 120000, 150000, 180000}
LongResponses ==
    {r \in [kind : {"track"}, uri : LongUris, name : {"title"},
            progress_ms : UNION {ProgressOf(uri) : uri \in LongUris},
            is_playing : {TRUE}] : r.progress_ms \in ProgressOf(r.uri)}

\* What a currently-playing poll can answer: a failure (no token, a request
\* error), nothing playing, or a track with its progress.
ProgressValues == {0, 20000}
Responses ==
    { [kind |-> "error", uri |-> "", name |-> "", progress_ms |-> 0,
       is_playing |-> FALSE],
      [kind |-> "none", uri |-> "", name |-> "", progress_ms |-> 0,
       is_playing |-> FALSE] }
    \cup [kind : {"track"}, uri : Uris, name : {"title"},
          progress_ms : ProgressValues, is_playing : BOOLEAN]

\* The time between two polls of the fast loop.
PollSteps == {pollIntervalMs, staleSessionMs + 1}

NothingPlaying ==
    [kind |-> "none", uri |-> "", name |-> "", progress_ms |-> 0,
     is_playing |-> FALSE]

\* No answer has been observed.
NoResponse ==
    [kind |-> "", uri |-> "", name |-> "", progress_ms |-> 0, is_playing |-> FALSE]

\* The tracks played while both loops run: one with an ISRC, one without any
\* identifier.
PlayedUris == {"spotify:track:isrc", "spotify:track:bare"}

\* The polls of an uninterrupted listening to these tracks.
PlayingResponses ==
    {NothingPlaying} \cup
    {r \in Responses : r.kind = "track" /\ r.is_playing /\ r.uri \in PlayedUris}

(***************************************************************************)
(* lib/scrobbles: threshold, metadata, the upsert of a track               *)
(***************************************************************************)
meetsScrobbleThreshold_Always(playedMs, trackDurationMs) == TRUE
\* playedMs >= minPlaySeconds * 1000 || playedMs >= trackDurationMs * minPlayPercent / 100
meetsScrobbleThreshold(playedMs, trackDurationMs) ==
    \/ playedMs >= minPlaySeconds * 1000
    \/ playedMs * 100 >= trackDurationMs * minPlayPercent

Db == [tracks |-> tracks, track_artists |-> track_artists,
       track_albums |-> track_albums, scrobbles |-> scrobbles]

\* The rows of tracks with this ISRC / this MBID (both columns are unique).
TracksByIsrc(tr, isrc) == {i \in DOMAIN tr : isrc # Null /\ tr[i].isrc = isrc}
TracksByMbid(tr, mbid) == {i \in DOMAIN tr : mbid # Null /\ tr[i].mbid = mbid}

\* resolveTrackMetadata and resolveTrackMetadataFromSpotify: the row found by
\* ISRC, if there is one, else what the provider and the metadata service say.
ResolveTrackMetadata(tr, uri) ==
    LET found == TracksByIsrc(tr, Catalog(uri).isrc) IN
    IF found # {}
    THEN LET row == tr[CHOOSE i \in found : TRUE] IN
         [title |-> row.title, durationMs |-> row.duration_ms,
          isrc |-> row.isrc, mbid |-> row.mbid]
    ELSE [title |-> uri, durationMs |-> Catalog(uri).duration_ms,
          isrc |-> Catalog(uri).isrc, mbid |-> Catalog(uri).mbid]

\* upsertTrack: the row with the ISRC, else the row with the MBID, else a new
\* row. The result is the table, the id, and whether the call threw: the
\* update that attaches the MBID to the row with the ISRC violates the unique
\* index on tracks.mbid when another row has that MBID.
upsertTrack(tr, metadata) ==
    LET byIsrc == TracksByIsrc(tr, metadata.isrc)
        byMbid == TracksByMbid(tr, metadata.mbid)
    IN IF byIsrc # {}
       THEN LET id == CHOOSE i \in byIsrc : TRUE IN
            IF metadata.mbid # Null /\ tr[id].mbid = Null
            THEN IF byMbid # {}
                 THEN [tracks |-> tr, id |-> Null, threw |-> TRUE]
                 ELSE [tracks |-> [tr EXCEPT ![id].mbid = metadata.mbid],
                       id |-> id, threw |-> FALSE]
            ELSE [tracks |-> tr, id |-> id, threw |-> FALSE]
       ELSE IF byMbid # {}
       THEN [tracks |-> tr, id |-> CHOOSE i \in byMbid : TRUE, threw |-> FALSE]
       ELSE [tracks |-> Append(tr, [title |-> metadata.title,
                                    duration_ms |-> metadata.durationMs,
                                    mbid |-> metadata.mbid,
                                    isrc |-> metadata.isrc]),
             id |-> Len(tr) + 1, threw |-> FALSE]

\* upsertArtist: the row with the MBID, else the row with the name (which gets
\* the MBID if it has none), else a new row. `sync` tells whether
\* triggerAutoSync was called.
upsertArtist(ar, name, mbid) ==
    LET byMbid == {i \in DOMAIN ar : mbid # Null /\ ar[i].mbid = mbid}
        byName == {i \in DOMAIN ar : ar[i].name = name}
    IN IF byMbid # {}
       THEN [artists |-> ar, id |-> CHOOSE i \in byMbid : TRUE, sync |-> FALSE]
       ELSE IF byName # {}
       THEN LET id == CHOOSE i \in byName : TRUE IN
            IF mbid # Null /\ ar[id].mbid = Null
            THEN [artists |-> [ar EXCEPT ![id].mbid = mbid], id |-> id,
                  sync |-> TRUE]
            ELSE [artists |-> ar, id |-> id, sync |-> FALSE]
       ELSE [artists |-> Append(ar, [name |-> name, mbid |-> mbid]),
             id |-> Len(ar) + 1, sync |-> mbid # Null]

\* upsertAlbum: the row with the MBID, else the row with the title and the
\* artist (which gets the MBID if it has none), else a new row.
upsertAlbum(al, title, artistId, mbid) ==
    LET byMbid == {i \in DOMAIN al : mbid # Null /\ al[i].mbid = mbid}
        byTitle == {i \in DOMAIN al : al[i].title = title
                                       /\ al[i].artist_id = artistId}
    IN IF byMbid # {}
       THEN [albums |-> al, id |-> CHOOSE i \in byMbid : TRUE]
       ELSE IF byTitle # {}
       THEN LET id == CHOOSE i \in byTitle : TRUE IN
            [albums |-> IF mbid # Null /\ al[id].mbid = Null
                        THEN [al EXCEPT ![id].mbid = mbid]
                        ELSE al,
             id |-> id]
       ELSE [albums |-> Append(al, [title |-> title, artist_id |-> artistId,
                                    mbid |-> mbid]),
             id |-> Len(al) + 1]

\* The key of the constraint no_duplicate_scrobbles.
ScrobbleKey(row) == <<row.user_id, row.track_id, row.played_at>>

\* INSERT INTO scrobbles ... ON CONFLICT (user_id, track_id, played_at) DO NOTHING
InsertScrobble_NoConstraint(sc, row) == Append(sc, row)
InsertScrobble(sc, row) ==
    IF \E i \in DOMAIN sc : ScrobbleKey(sc[i]) = ScrobbleKey(row)
    THEN sc
    ELSE Append(sc, row)

\* hasExistingScrobbleInWindow: a scrobble of the user and the track with
\* played_at between playedAt - 10 min and playedAt + 10 min.
hasExistingScrobbleInWindow(sc, userId, trackId, playedAt) ==
    \E i \in DOMAIN sc :
        /\ sc[i].user_id = userId
        /\ sc[i].track_id = trackId
        /\ sc[i].played_at >= playedAt - DEDUPE_WINDOW_MS
        /\ sc[i].played_at <= playedAt + DEDUPE_WINDOW_MS

\* What a persist call leaves behind for the caller: key, whether a row with
\* the key was there when the call's insert (or its return, for a duplicate)
\* was reached, and the value returned.
PersistRecord(sc, key, returned, via) ==
    [key |-> key, existed |-> \E i \in DOMAIN sc : ScrobbleKey(sc[i]) = key,
     returned |-> returned, via |-> via]

\* persistScrobbleFromMetadata: upsert the track, link it, insert. `p` and
\* `duration` are the play's measured time and the track's duration, kept
\* with the row.
persistScrobbleFromMetadata(db, userId, playedAt, durationMs, metadata, skipped, p, duration) ==
    LET up == upsertTrack(db.tracks, metadata)
        row == [user_id |-> userId, track_id |-> up.id, played_at |-> playedAt,
                played_duration_ms |-> durationMs, skipped |-> skipped,
                provider |-> "spotify", via |-> "currently-playing",
                p |-> p, duration |-> duration]
        sc == InsertScrobble(db.scrobbles, row)
    IN IF up.threw
       THEN [db |-> db, inserted |-> FALSE, key |-> ScrobbleKey(row)]
       ELSE [db |-> [tracks |-> up.tracks,
                     track_artists |-> db.track_artists \cup {up.id},
                     track_albums |-> db.track_albums \cup {up.id},
                     scrobbles |-> sc],
             inserted |-> Len(sc) > Len(db.scrobbles),
             key |-> ScrobbleKey(row)]

(***************************************************************************)
(* lib/playback: the session engine                                        *)
(***************************************************************************)
getEffectiveAccumulatedMs_NoMargin(accumulatedMs, trackDurationMs) == accumulatedMs
getEffectiveAccumulatedMs(accumulatedMs, trackDurationMs) ==
    IF accumulatedMs + endMarginMs >= trackDurationMs
    THEN trackDurationMs
    ELSE accumulatedMs

\* effectiveMs < trackDurationMs * skipThresholdPercent / 100
isSkipped(accumulatedMs, trackDurationMs) ==
    getEffectiveAccumulatedMs(accumulatedMs, trackDurationMs) * 100
        < trackDurationMs * skipThresholdPercent

\* finalizeSession's lookup: a scrobble of the user and the provider with
\* played_at between started_at - 5 s and started_at + 5 s.
ExistingScrobbleNear_Never(sc, userId, startedAt) == FALSE
ExistingScrobbleNear_Open(sc, userId, startedAt) ==
    \E i \in DOMAIN sc :
        /\ sc[i].user_id = userId
        /\ sc[i].provider = "spotify"
        /\ sc[i].played_at > startedAt - finalizeWindowMs
        /\ sc[i].played_at < startedAt + finalizeWindowMs
ExistingScrobbleNear(sc, userId, startedAt) ==
    \E i \in DOMAIN sc :
        /\ sc[i].user_id = userId
        /\ sc[i].provider = "spotify"
        /\ sc[i].played_at >= startedAt - finalizeWindowMs
        /\ sc[i].played_at <= startedAt + finalizeWindowMs

\* resolveTrackMetadataFromSpotify(session.track_metadata): the row found by
\* the ISRC of the snapshot, if there is one, else what the snapshot and the
\* metadata service say.
ResolveSessionMetadata(tr, s) ==
    LET found == TracksByIsrc(tr, s.track_metadata.isrc) IN
    IF found # {}
    THEN LET row == tr[CHOOSE i \in found : TRUE] IN
         [title |-> row.title, durationMs |-> row.duration_ms,
          isrc |-> row.isrc, mbid |-> row.mbid]
    ELSE [title |-> s.track_uri, durationMs |-> s.track_metadata.duration_ms,
          isrc |-> s.track_metadata.isrc, mbid |-> Catalog(s.track_uri).mbid]

NoPersist == [key |-> <<>>, existed |-> FALSE, returned |-> FALSE, via |-> ""]

\* finalizeSession(userId, session): the tables afterwards, whether a scrobble
\* was created, and which return was taken.
finalizeSession(userId, s, db) ==
    LET trackDurationMs == s.track_duration_ms IN
    IF s.scrobbled
    THEN [db |-> db, inserted |-> FALSE, outcome |-> "scrobbled", persist |-> NoPersist]
    ELSE IF ~meetsScrobbleThreshold(s.accumulated_ms, trackDurationMs)
    THEN [db |-> db, inserted |-> FALSE, outcome |-> "below", persist |-> NoPersist]
    ELSE IF ExistingScrobbleNear(db.scrobbles, userId, s.started_at)
    THEN [db |-> db, inserted |-> FALSE, outcome |-> "exists", persist |-> NoPersist]
    ELSE LET metadata == ResolveSessionMetadata(db.tracks, s)
             r == persistScrobbleFromMetadata(
                      db, userId, s.started_at,
                      getEffectiveAccumulatedMs(s.accumulated_ms, trackDurationMs),
                      metadata, isSkipped(s.accumulated_ms, trackDurationMs),
                      s.accumulated_ms, trackDurationMs)
         IN [db |-> r.db, inserted |-> r.inserted,
             outcome |-> IF r.inserted THEN "inserted" ELSE "conflict",
             persist |-> PersistRecord(db.scrobbles, r.key, r.inserted,
                                       "currently-playing")]

isSessionStale_AtBound(s, t) == t - s.last_seen_at >= staleSessionMs
isSessionStale(s, t) == t - s.last_seen_at > staleSessionMs

\* trackMetadata: the track of the response as the session stores it.
TrackMetadata(resp) ==
    [name |-> resp.name, duration_ms |-> Catalog(resp.uri).duration_ms,
     isrc |-> Catalog(resp.uri).isrc]

FreshSession_FromProgress(resp, t) ==
    [track_uri |-> resp.uri, started_at |-> t, last_seen_at |-> t,
     last_progress_ms |-> resp.progress_ms, accumulated_ms |-> resp.progress_ms,
     is_playing |-> resp.is_playing,
     track_duration_ms |-> Catalog(resp.uri).duration_ms,
     track_metadata |-> TrackMetadata(resp), scrobbled |-> FALSE]

\* A fresh session for the track of the response.
FreshSession(resp, t) ==
    [track_uri |-> resp.uri, started_at |-> t, last_seen_at |-> t,
     last_progress_ms |-> resp.progress_ms, accumulated_ms |-> 0,
     is_playing |-> resp.is_playing,
     track_duration_ms |-> Catalog(resp.uri).duration_ms,
     track_metadata |-> TrackMetadata(resp), scrobbled |-> FALSE]

\* delta < -max(wrapMinToleranceMs, duration * wrapThresholdPercent / 100)
WrapDetected_Never(s, resp) == FALSE
WrapDetected_AtBound(s, resp) ==
    LET delta == resp.progress_ms - s.last_progress_ms IN
    /\ s.is_playing
    /\ delta <= -wrapMinToleranceMs
    /\ delta * 100 <= -(Catalog(resp.uri).duration_ms * wrapThresholdPercent)
WrapDetected(s, resp) ==
    LET delta == resp.progress_ms - s.last_progress_ms IN
    /\ s.is_playing
    /\ delta < -wrapMinToleranceMs
    /\ delta * 100 < -(Catalog(resp.uri).duration_ms * wrapThresholdPercent)

ContinuedSession_Uncapped(s, resp, t) ==
    LET delta == resp.progress_ms - s.last_progress_ms
        newAccumulated ==
            IF ~s.is_playing THEN s.accumulated_ms
            ELSE IF delta > 0 THEN s.accumulated_ms + delta
            ELSE s.accumulated_ms
    IN [s EXCEPT !.last_seen_at = t, !.last_progress_ms = resp.progress_ms,
                 !.accumulated_ms = newAccumulated, !.is_playing = resp.is_playing,
                 !.track_duration_ms = Catalog(resp.uri).duration_ms]

\* Case C without a wrap: the session after the poll.
ContinuedSession(s, resp, t) ==
    LET delta == resp.progress_ms - s.last_progress_ms
        newAccumulated ==
            IF ~s.is_playing THEN s.accumulated_ms
            ELSE IF delta > 0 /\ delta <= maxDeltaMs THEN s.accumulated_ms + delta
            ELSE IF delta > maxDeltaMs THEN s.accumulated_ms + maxDeltaMs
            ELSE s.accumulated_ms
    IN [s EXCEPT !.last_seen_at = t, !.last_progress_ms = resp.progress_ms,
                 !.accumulated_ms = newAccumulated, !.is_playing = resp.is_playing,
                 !.track_duration_ms = Catalog(resp.uri).duration_ms]

NoFinalize == [started_at |-> Null, outcome |-> "none"]

\* What one poll decides: which session, if any, it finalizes and which
\* session row it then writes (<<>>: it deletes the row; the row as it is: it
\* writes nothing).
PollPlan(sess, resp, t) ==
    IF resp.kind = "error"
    THEN [finalize |-> FALSE, write |-> sess]
    ELSE IF resp.kind = "none"
    THEN IF sess # <<>> /\ isSessionStale(sess[1], t)
         THEN [finalize |-> TRUE, write |-> <<>>]
         ELSE [finalize |-> FALSE, write |-> sess]
    ELSE IF sess = <<>>
    THEN [finalize |-> FALSE, write |-> <<FreshSession(resp, t)>>]
    ELSE IF sess[1].track_uri = resp.uri
    THEN IF WrapDetected(sess[1], resp)
         THEN [finalize |-> TRUE, write |-> <<FreshSession(resp, t)>>]
         ELSE [finalize |-> FALSE, write |-> <<ContinuedSession(sess[1], resp, t)>>]
    ELSE [finalize |-> ~sess[1].scrobbled, write |-> <<FreshSession(resp, t)>>]

\* processCurrentlyPlaying, one poll of the fast loop at time now + d. The
\* write of the session row (upsertPlaybackSession, clearPlaybackSession) can
\* fail; the error is caught and the row stays as it was.
PollBody(d, resp, writeOk) ==
    /\ polls' = polls + 1
    /\ now' = now + d
    /\ LET plan == PollPlan(session, resp, now + d) IN
       /\ IF plan.finalize
          THEN LET f == finalizeSession(User, session[1], Db) IN
               /\ tracks' = f.db.tracks
               /\ track_artists' = f.db.track_artists
               /\ track_albums' = f.db.track_albums
               /\ scrobbles' = f.db.scrobbles
               /\ flast' = [started_at |-> session[1].started_at, outcome |-> f.outcome]
               /\ plast' = IF f.persist = NoPersist THEN plast ELSE f.persist
          ELSE UNCHANGED <<dbVars, flast, plast>>
       /\ session' = IF writeOk THEN plan.write ELSE session
    /\ UNCHANGED <<ticks, queueVars, history, reconcilerVars, upsertVars>>

PollStep(d, resp, writeOk) ==
    /\ PollBody(d, resp, writeOk)
    /\ UNCHANGED extVars

\* The same poll where the answer of the endpoint is observed.
ObservedPoll(d, resp, writeOk) ==
    /\ PollBody(d, resp, writeOk)
    /\ presp' = resp
    /\ UNCHANGED <<membershipVars, rateVars, tokenVars, isRunning>>

ProcessCurrentlyPlaying(d, resp, writeOk) ==
    /\ polls < MaxPolls
    /\ PollStep(d, resp, writeOk)

\* The same poll while a long track plays: more polls fit into one listening.
ProcessLongPlaying(resp) ==
    /\ polls < MaxLongPolls
    /\ PollStep(pollIntervalMs, resp, TRUE)

(***************************************************************************)
(* The provider's recently-played list                                     *)
(***************************************************************************)
\* A track finishes playing: the provider lists it with played_at = now.
ProviderPlay(uri) ==
    /\ Len(history) < MaxPlays
    /\ IF history = <<>> THEN TRUE ELSE history[Len(history)].played_at < now
    /\ history' = Append(history, [uri |-> uri, played_at |-> now])
    /\ UNCHANGED <<clockVars, queueVars, dbVars, session, polls, reconcilerVars,
                   flast, plast, upsertVars, extVars>>

Reverse(seq) == [i \in 1..Len(seq) |-> seq[Len(seq) + 1 - i]]

RecentlyPlayed_Before(after, limit) ==
    LET items == SelectSeq(Reverse(history),
                           LAMBDA it : after = Null \/ it.played_at < after)
    IN SubSeq(items, 1, Min(limit, Len(items)))

\* The endpoint's answer to `after`: the items played after it, the most
\* recent first, at most `limit` of them.
RecentlyPlayed(after, limit) ==
    LET items == SelectSeq(Reverse(history),
                           LAMBDA it : after = Null \/ it.played_at > after)
    IN SubSeq(items, 1, Min(limit, Len(items)))

SortByPlayedAt_Unsorted(items) == items

RECURSIVE SortByPlayedAt(_)
\* allItems.sort((a, b) => a.played_at - b.played_at)
SortByPlayedAt(items) ==
    IF items = <<>> THEN <<>>
    ELSE LET m == CHOOSE i \in DOMAIN items :
                     \A j \in DOMAIN items :
                        \/ items[i].played_at < items[j].played_at
                        \/ items[i].played_at = items[j].played_at /\ i <= j
         IN <<items[m]>> \o SortByPlayedAt(
                [k \in 1..(Len(items) - 1) |-> IF k < m THEN items[k] ELSE items[k + 1]])

\* The `after` parameter fetchNewSpotifyPlays sends: the cursor, if any.
AfterMs(afterTimestamp) == afterTimestamp

fetchNewSpotifyPlays(afterTimestamp) ==
    SortByPlayedAt(RecentlyPlayed(AfterMs(afterTimestamp), spotifyFetchLimit))

\* processPlayEvents: the estimate of a play is the time to the next play,
\* at most the track's duration; the last play counts in full.
processPlayEvents(items) ==
    [i \in 1..Len(items) |->
        LET trackDurationMs == Catalog(items[i].uri).duration_ms
            estimatedDurationMs ==
                IF i < Len(items)
                THEN Min(trackDurationMs, items[i + 1].played_at - items[i].played_at)
                ELSE trackDurationMs
        IN [uri |-> items[i].uri, playedAt |-> items[i].played_at,
            trackDurationMs |-> trackDurationMs,
            estimatedDurationMs |-> estimatedDurationMs,
            meetsThreshold |-> meetsScrobbleThreshold(estimatedDurationMs,
                                                      trackDurationMs)]]

(***************************************************************************)
(* processAccountScrobbles, the reconciler                                 *)
(***************************************************************************)
\* The call reads the cursor and fetches; with no plays it returns.
ReconcileFetch ==
    /\ rpc = "idle"
    /\ runs < MaxRuns
    /\ runs' = runs + 1
    /\ LET plays == fetchNewSpotifyPlays(cursor) IN
       IF plays = <<>>
       THEN UNCHANGED <<rpc, rplays, rbatch, rlatest, rreplay>>
       ELSE /\ rpc' = "loop"
            /\ rplays' = plays
            /\ rbatch' = processPlayEvents(plays)
            /\ rlatest' = Null
            /\ rreplay' = (plays = rlast)
    /\ UNCHANGED <<clockVars, queueVars, dbVars, session, history, polls,
                   cursor, rtrack, rdup, rlast, flast, plast, upsertVars, extVars>>

\* End of one iteration of `for (const event of processedEvents)`.
NextEvent ==
    /\ rbatch' = Tail(rbatch)
    /\ rpc' = IF Tail(rbatch) = <<>> THEN "finish" ELSE "loop"

LatestPlayedAt_First(latest, playedAt) ==
    IF latest = Null THEN playedAt ELSE latest
\* if (!latestPlayedAt || event.playedAt > latestPlayedAt) latestPlayedAt = event.playedAt
LatestPlayedAt(latest, playedAt) ==
    IF latest = Null \/ playedAt > latest THEN playedAt ELSE latest

\* One event of the loop: latestPlayedAt, the threshold, the metadata, and
\* persistScrobble as far as its duplicate check.
ReconcileEvent ==
    /\ rpc = "loop"
    /\ LET event == Head(rbatch) IN
       /\ rlatest' = LatestPlayedAt(rlatest, event.playedAt)
       /\ IF ~event.meetsThreshold
          THEN /\ NextEvent
               /\ UNCHANGED <<tracks, rtrack, rdup>>
          ELSE LET metadata == ResolveTrackMetadata(tracks, event.uri)
                   up == upsertTrack(tracks, metadata)
               IN IF up.threw
                  THEN /\ NextEvent
                       /\ UNCHANGED <<tracks, rtrack, rdup>>
                  ELSE /\ tracks' = up.tracks
                       /\ rtrack' = up.id
                       /\ rdup' = hasExistingScrobbleInWindow(scrobbles, User,
                                                              up.id, event.playedAt)
                       /\ rpc' = "persist"
                       /\ UNCHANGED rbatch
    /\ UNCHANGED <<clockVars, queueVars, track_artists, track_albums, scrobbles,
                   session, history, polls, cursor, runs, rplays, rlast, rreplay,
                   flast, plast, upsertVars, extVars>>

\* The rest of persistScrobble: the links, and unless the play is a duplicate
\* the insert.
ReconcilePersist ==
    /\ rpc = "persist"
    /\ LET event == Head(rbatch)
           row == [user_id |-> User, track_id |-> rtrack,
                   played_at |-> event.playedAt,
                   played_duration_ms |-> event.estimatedDurationMs,
                   skipped |-> FALSE, provider |-> "spotify",
                   via |-> "recently-played",
                   p |-> event.estimatedDurationMs,
                   duration |-> event.trackDurationMs]
           sc == IF rdup THEN scrobbles ELSE InsertScrobble(scrobbles, row)
       IN /\ track_artists' = track_artists \cup {rtrack}
          /\ track_albums' = track_albums \cup {rtrack}
          /\ scrobbles' = sc
          /\ plast' = PersistRecord(scrobbles, ScrobbleKey(row),
                                    Len(sc) > Len(scrobbles), "recently-played")
    /\ NextEvent
    /\ rtrack' = 0
    /\ rdup' = FALSE
    /\ UNCHANGED <<clockVars, queueVars, tracks, session, history, polls,
                   cursor, runs, rplays, rlatest, rlast, rreplay, flast, upsertVars, extVars>>

\* getValidAccessToken returns null, or getScrobbleState or the fetch throws:
\* the call returns before it has any plays.
ReconcileFetchFails ==
    /\ rpc = "idle"
    /\ runs < MaxRuns
    /\ runs' = runs + 1
    /\ UNCHANGED <<clockVars, queueVars, dbVars, session, history, polls,
                   cursor, rpc, rplays, rbatch, rlatest, rtrack, rdup, rlast,
                   rreplay, flast, plast, upsertVars, extVars>>

\* resolveTrackMetadata throws for an event that meets the threshold (the
\* database or the metadata service is unreachable): the loop's catch block
\* counts the error and the loop goes on.
ReconcileEventFails ==
    /\ rpc = "loop"
    /\ Head(rbatch).meetsThreshold
    /\ rlatest' = LatestPlayedAt(rlatest, Head(rbatch).playedAt)
    /\ NextEvent
    /\ UNCHANGED <<clockVars, queueVars, dbVars, session, history, polls,
                   cursor, runs, rplays, rtrack, rdup, rlast, rreplay,
                   flast, plast, upsertVars, extVars>>

\* A statement of persistScrobble after its upsertTrack throws: nothing more
\* is written for the event, persistScrobble's catch block returns false and
\* the loop goes on.
ReconcilePersistFails ==
    /\ rpc = "persist"
    /\ NextEvent
    /\ rtrack' = 0
    /\ rdup' = FALSE
    /\ UNCHANGED <<clockVars, queueVars, dbVars, session, history, polls,
                   cursor, runs, rplays, rlatest, rlast, rreplay,
                   flast, plast, upsertVars, extVars>>

\* updateScrobbleState(latestPlayedAt) and the return. The write can fail; the
\* error is caught and the cursor stays as it was.
ReconcileFinish(writeOk) ==
    /\ rpc = "finish"
    /\ cursor' = IF writeOk THEN rlatest ELSE cursor
    /\ rlast' = rplays
    /\ rpc' = "idle"
    /\ rplays' = <<>>
    /\ rlatest' = Null
    /\ rreplay' = FALSE
    /\ UNCHANGED <<clockVars, queueVars, dbVars, session, history, polls, runs,
                   rbatch, rtrack, rdup, flast, plast, upsertVars, extVars>>

(***************************************************************************)
(* lib/scrobbles: the upserts, called one at a time                        *)
(***************************************************************************)
\* The names, titles and external ids the calls are made with.
ArtistNames == {"Artist A", "Artist B"}
AlbumTitles == {"Album"}
Mbids == {Null, 1, 2}
Isrcs == {Null, 1, 2}

NoUpsert == [fn |-> "", args |-> <<>>, id |-> Null, threw |-> FALSE]

\* upsertArtist(name, mbid), with triggerAutoSync: the sync of the artist's
\* relationships is started in the calling process and not awaited; the job
\* queue is not written.
UpsertArtist(name, mbid) ==
    /\ ucalls < MaxUpserts
    /\ LET r == upsertArtist(artists, name, mbid) IN
       /\ artists' = r.artists
       /\ syncs' = IF r.sync THEN syncs \cup {mbid} ELSE syncs
       /\ ulast' = [fn |-> "upsertArtist", args |-> <<name, mbid>>,
                    id |-> r.id, threw |-> FALSE]
    /\ ucalls' = ucalls + 1
    /\ UNCHANGED <<clockVars, queueVars, dbVars, session, history, polls,
                   reconcilerVars, flast, plast, albums,
                   extVars>>

\* upsertAlbum(title, artistId, mbid, releaseDate, imageUrl)
UpsertAlbum(title, artistId, mbid) ==
    /\ ucalls < MaxUpserts
    /\ artistId \in DOMAIN artists
    /\ LET r == upsertAlbum(albums, title, artistId, mbid) IN
       /\ albums' = r.albums
       /\ ulast' = [fn |-> "upsertAlbum", args |-> <<title, artistId, mbid>>,
                    id |-> r.id, threw |-> FALSE]
    /\ ucalls' = ucalls + 1
    /\ UNCHANGED <<clockVars, queueVars, dbVars, session, history, polls,
                   reconcilerVars, flast, plast, artists, syncs,
                   extVars>>

\* upsertTrack(metadata)
UpsertTrack(isrc, mbid) ==
    /\ ucalls < MaxUpserts
    /\ LET metadata == [title |-> "Track", durationMs |-> 40 * 1000,
                        isrc |-> isrc, mbid |-> mbid]
           r == upsertTrack(tracks, metadata)
       IN /\ tracks' = r.tracks
          /\ ulast' = [fn |-> "upsertTrack", args |-> <<isrc, mbid>>,
                       id |-> r.id, threw |-> r.threw]
    /\ ucalls' = ucalls + 1
    /\ UNCHANGED <<clockVars, queueVars, track_artists, track_albums, scrobbles,
                   session, history, polls, reconcilerVars, flast, plast,
                   artists, albums, syncs, extVars>>

(***************************************************************************)
(* lib/sync: membership periods and the refinement of their dates          *)
(***************************************************************************)
\* A raw date is the sequence of its characters; no date (null) is the empty
\* sequence.
NoDate == <<>>
Raw2001 == <<"2", "0", "0", "1">>
Raw2001_06 == Raw2001 \o <<"-", "0", "6">>
Raw2001_06_15 == Raw2001_06 \o <<"-", "1", "5">>
Raw2002 == <<"2", "0", "0", "2">>
Raw2005 == <<"2", "0", "0", "5">>
BeginDates == {NoDate, Raw2001, Raw2001_06, Raw2001_06_15, Raw2002}
EndDates == {NoDate, Raw2005}

\* The member and the groups of the memberships.
Member == 1
Groups == {2, 3}

DigitOf(c) ==
    CASE c = "0" -> 0 [] c = "1" -> 1 [] c = "2" -> 2 [] c = "3" -> 3
      [] c = "4" -> 4 [] c = "5" -> 5 [] c = "6" -> 6 [] c = "7" -> 7
      [] c = "8" -> 8 [] c = "9" -> 9

RECURSIVE NumberOf(_)
\* Number(part)
NumberOf(part) ==
    IF part = <<>> THEN 0
    ELSE NumberOf(SubSeq(part, 1, Len(part) - 1)) * 10 + DigitOf(part[Len(part)])

RECURSIVE SplitDash(_)
\* rawDate.split('-')
SplitDash(rawDate) ==
    IF \E k \in DOMAIN rawDate : rawDate[k] = "-"
    THEN LET k == CHOOSE i \in DOMAIN rawDate :
                     rawDate[i] = "-" /\ \A j \in 1..(i - 1) : rawDate[j] # "-"
         IN <<SubSeq(rawDate, 1, k - 1)>>
               \o SplitDash(SubSeq(rawDate, k + 1, Len(rawDate)))
    ELSE <<rawDate>>

\* parseRawDate: year, zero-based month and day, missing parts filled with
\* the start of the period.
parseRawDate(rawDate) ==
    IF rawDate = NoDate THEN NoDate
    ELSE LET parts == SplitDash(rawDate) IN
         <<NumberOf(parts[1]),
           IF Len(parts) > 1 THEN NumberOf(parts[2]) - 1 ELSE 0,
           IF Len(parts) > 2 THEN NumberOf(parts[3]) ELSE 1>>

\* formatDateForDb: year, month and day of the date (process time zone UTC).
formatDateForDb(date) == <<date[1], date[2] + 1, date[3]>>

areDatesCompatible_Always(existing, incoming) == TRUE
areDatesCompatible(existing, incoming) ==
    IF existing = NoDate \/ incoming = NoDate THEN TRUE
    ELSE LET minLength == Min(Len(existing), Len(incoming)) IN
         SubSeq(existing, 1, minLength) = SubSeq(incoming, 1, minLength)

shouldRefineDate_Differs(existing, incoming) ==
    IF incoming = NoDate THEN FALSE
    ELSE IF existing = NoDate THEN TRUE
    ELSE IF ~areDatesCompatible(existing, incoming) THEN FALSE
    ELSE Len(incoming) # Len(existing)
shouldRefineDate(existing, incoming) ==
    IF incoming = NoDate THEN FALSE
    ELSE IF existing = NoDate THEN TRUE
    ELSE IF ~areDatesCompatible(existing, incoming) THEN FALSE
    ELSE Len(incoming) > Len(existing)

\* What a call leaves for its caller, and the raw dates its row had before.
NoMembership ==
    [args |-> <<>>, id |-> Null, inserted |-> FALSE, updated |-> FALSE,
     begin_was |-> NoDate, end_was |-> NoDate]

\* The sync runs that can be in flight at once, and a run that is not inside
\* a call.
SyncRuns == {"s1", "s2"}
NoFind == [args |-> <<>>, existingPeriods |-> <<>>]

\* The rows of the pair: existingPeriods.
PeriodsOf(ag, memberId, groupId) ==
    {i \in DOMAIN ag : ag[i].member_id = memberId /\ ag[i].group_id = groupId}

\* The update of step 2: what the set() writes to the row `existing`.
RefinedPeriod(existing, beginRaw, endRaw, ended) ==
    LET shouldRefineBegin == shouldRefineDate(existing.begin_raw, beginRaw)
        shouldRefineEnd == shouldRefineDate(existing.end_raw, endRaw)
    IN [existing EXCEPT
           !.begin_date = IF shouldRefineBegin /\ parseRawDate(beginRaw) # NoDate
                          THEN formatDateForDb(parseRawDate(beginRaw)) ELSE @,
           !.end_date = IF shouldRefineEnd /\ parseRawDate(endRaw) # NoDate
                        THEN formatDateForDb(parseRawDate(endRaw)) ELSE @,
           !.begin_raw = IF shouldRefineBegin THEN beginRaw ELSE @,
           !.end_raw = IF shouldRefineEnd THEN endRaw ELSE @,
           !.ended = ended]

\* The unique index idx_artists_groups_unique_period: another row of the pair
\* has the same raw dates, none of them null.
PeriodConflict(ag, id, row) ==
    \E k \in DOMAIN ag \ {id} :
        /\ ag[k].member_id = row.member_id
        /\ ag[k].group_id = row.group_id
        /\ row.begin_raw # NoDate
        /\ row.end_raw # NoDate
        /\ ag[k].begin_raw = row.begin_raw
        /\ ag[k].end_raw = row.end_raw

\* upsertMembershipPeriod(memberId, groupId, membership). findMany has no
\* order, so any matching row can be the one `find` or the loop meets first.
UpsertMembershipPeriod(memberId, groupId, beginRaw, endRaw, ended) ==
    /\ mcalls < MaxSyncCalls
    /\ mcalls' = mcalls + 1
    /\ LET existingPeriods == PeriodsOf(artists_groups, memberId, groupId)
           args == <<memberId, groupId, beginRaw, endRaw, ended>>
           exact == {i \in existingPeriods :
                        /\ artists_groups[i].begin_raw = beginRaw
                        /\ artists_groups[i].end_raw = endRaw}
           compatible == {i \in existingPeriods :
                        /\ areDatesCompatible(artists_groups[i].begin_raw, beginRaw)
                        /\ areDatesCompatible(artists_groups[i].end_raw, endRaw)}
       IN IF exact # {}
          THEN \E id \in exact :
                  /\ artists_groups' = [artists_groups EXCEPT ![id].ended = ended]
                  /\ mlast' = [args |-> args, id |-> id, inserted |-> FALSE,
                               updated |-> artists_groups[id].ended # ended,
                               begin_was |-> beginRaw, end_was |-> endRaw]
          ELSE IF compatible # {}
          THEN \E id \in compatible :
                  LET existing == artists_groups[id]
                      row == RefinedPeriod(existing, beginRaw, endRaw, ended)
                      update == \/ shouldRefineDate(existing.begin_raw, beginRaw)
                                \/ shouldRefineDate(existing.end_raw, endRaw)
                                \/ existing.ended # ended
                  IN IF update /\ PeriodConflict(artists_groups, id, row)
                     THEN /\ mlast' = [args |-> args, id |-> Null,
                                       inserted |-> FALSE, updated |-> FALSE,
                                       begin_was |-> existing.begin_raw,
                                       end_was |-> existing.end_raw]
                          /\ UNCHANGED artists_groups
                     ELSE /\ artists_groups' =
                                IF update THEN [artists_groups EXCEPT ![id] = row]
                                ELSE artists_groups
                          /\ mlast' = [args |-> args, id |-> id,
                                       inserted |-> FALSE, updated |-> update,
                                       begin_was |-> existing.begin_raw,
                                       end_was |-> existing.end_raw]
          ELSE /\ artists_groups' = Append(artists_groups,
                     [member_id |-> memberId, group_id |-> groupId,
                      begin_date |-> IF parseRawDate(beginRaw) # NoDate
                                     THEN formatDateForDb(parseRawDate(beginRaw))
                                     ELSE NoDate,
                      end_date |-> IF parseRawDate(endRaw) # NoDate
                                   THEN formatDateForDb(parseRawDate(endRaw))
                                   ELSE NoDate,
                      begin_raw |-> beginRaw, end_raw |-> endRaw,
                      ended |-> ended])
               /\ mlast' = [args |-> args, id |-> Len(artists_groups) + 1,
                            inserted |-> TRUE, updated |-> FALSE,
                            begin_was |-> beginRaw, end_was |-> endRaw]
    /\ UNCHANGED <<clockVars, queueVars, dbVars, session, history, polls,
                   reconcilerVars, flast, plast, upsertVars, rateVars,
                   tokenVars, isRunning, presp, mread>>

\* Two sync runs in flight at once: triggerAutoSync does not await
\* syncArtistRelationshipsByMbid, and the run of a member and the run of its
\* group both reach the pair. A call's findMany and its write are two
\* statements with an await between them.
MembershipFind(r, memberId, groupId, beginRaw, endRaw, ended) ==
    /\ mread[r] = NoFind
    /\ mcalls < MaxSyncCalls
    /\ mcalls' = mcalls + 1
    /\ mread' = [mread EXCEPT ![r] =
                    [args |-> <<memberId, groupId, beginRaw, endRaw, ended>>,
                     existingPeriods |-> artists_groups]]
    /\ UNCHANGED <<clockVars, queueVars, dbVars, session, history, polls,
                   reconcilerVars, flast, plast, upsertVars, rateVars,
                   tokenVars, isRunning, presp, artists_groups, mlast>>

\* The update of step 2 as the table applies it: the columns the set() names
\* are written to the row as it is now, the flags come from the row as read.
RefinedRow(current, existing, beginRaw, endRaw, ended) ==
    LET shouldRefineBegin == shouldRefineDate(existing.begin_raw, beginRaw)
        shouldRefineEnd == shouldRefineDate(existing.end_raw, endRaw)
    IN [current EXCEPT
           !.begin_date = IF shouldRefineBegin /\ parseRawDate(beginRaw) # NoDate
                          THEN formatDateForDb(parseRawDate(beginRaw)) ELSE @,
           !.end_date = IF shouldRefineEnd /\ parseRawDate(endRaw) # NoDate
                        THEN formatDateForDb(parseRawDate(endRaw)) ELSE @,
           !.begin_raw = IF shouldRefineBegin THEN beginRaw ELSE @,
           !.end_raw = IF shouldRefineEnd THEN endRaw ELSE @,
           !.ended = ended]

\* The rest of the call: the exact match, the compatible period or the
\* insert, decided on the rows the call read and written to the table as it
\* is by now. A write the unique index rejects throws; the run records the
\* error and goes on.
MembershipWrite(r) ==
    /\ mread[r] # NoFind
    /\ LET read == mread[r].existingPeriods
           args == mread[r].args
           memberId == args[1]
           groupId == args[2]
           beginRaw == args[3]
           endRaw == args[4]
           ended == args[5]
           existingPeriods == PeriodsOf(read, memberId, groupId)
           exact == {i \in existingPeriods :
                        /\ read[i].begin_raw = beginRaw
                        /\ read[i].end_raw = endRaw}
           compatible == {i \in existingPeriods :
                        /\ areDatesCompatible(read[i].begin_raw, beginRaw)
                        /\ areDatesCompatible(read[i].end_raw, endRaw)}
           new == [member_id |-> memberId, group_id |-> groupId,
                   begin_date |-> IF parseRawDate(beginRaw) # NoDate
                                  THEN formatDateForDb(parseRawDate(beginRaw))
                                  ELSE NoDate,
                   end_date |-> IF parseRawDate(endRaw) # NoDate
                                THEN formatDateForDb(parseRawDate(endRaw))
                                ELSE NoDate,
                   begin_raw |-> beginRaw, end_raw |-> endRaw, ended |-> ended]
       IN IF exact # {}
          THEN \E id \in exact :
                  /\ artists_groups' =
                        IF read[id].ended # ended
                        THEN [artists_groups EXCEPT ![id].ended = ended]
                        ELSE artists_groups
                  /\ mlast' = [args |-> args, id |-> id, inserted |-> FALSE,
                               updated |-> read[id].ended # ended,
                               begin_was |-> beginRaw, end_was |-> endRaw]
          ELSE IF compatible # {}
          THEN \E id \in compatible :
                  LET existing == read[id]
                      row == RefinedRow(artists_groups[id], existing,
                                        beginRaw, endRaw, ended)
                      update == \/ shouldRefineDate(existing.begin_raw, beginRaw)
                                \/ shouldRefineDate(existing.end_raw, endRaw)
                                \/ existing.ended # ended
                  IN IF update /\ PeriodConflict(artists_groups, id, row)
                     THEN /\ mlast' = [args |-> args, id |-> Null,
                                       inserted |-> FALSE, updated |-> FALSE,
                                       begin_was |-> existing.begin_raw,
                                       end_was |-> existing.end_raw]
                          /\ UNCHANGED artists_groups
                     ELSE /\ artists_groups' =
                                IF update THEN [artists_groups EXCEPT ![id] = row]
                                ELSE artists_groups
                          /\ mlast' = [args |-> args, id |-> id,
                                       inserted |-> FALSE, updated |-> update,
                                       begin_was |-> existing.begin_raw,
                                       end_was |-> existing.end_raw]
          ELSE IF PeriodConflict(artists_groups, 0, new)
          THEN /\ mlast' = [args |-> args, id |-> Null, inserted |-> FALSE,
                            updated |-> FALSE,
                            begin_was |-> beginRaw, end_was |-> endRaw]
               /\ UNCHANGED artists_groups
          ELSE /\ artists_groups' = Append(artists_groups, new)
               /\ mlast' = [args |-> args, id |-> Len(artists_groups) + 1,
                            inserted |-> TRUE, updated |-> FALSE,
                            begin_was |-> beginRaw, end_was |-> endRaw]
    /\ mread' = [mread EXCEPT ![r] = NoFind]
    /\ UNCHANGED <<clockVars, queueVars, dbVars, session, history, polls,
                   reconcilerVars, flast, plast, upsertVars, rateVars,
                   tokenVars, isRunning, presp, mcalls>>

(***************************************************************************)
(* lib/musicbrainz: the rate limit queue and rateLimitedFetch              *)
(***************************************************************************)
\* The callers of rateLimitedFetch in one process.
Callers == {"c1", "c2"}
NoCaller == ""

\* What a request can be answered with: a status, or fetch throwing a
\* transient or another error.
Answers == {"200", "404", "503", "transient", "error"}

\* Math.random() * 2 - 1 in addJitter, in percent.
JitterShares == {-100, 0, 100}

\* addJitter(delay) with the random share `share` of the jitter.
addJitter(delay, share) == delay + (delay * jitterFactorPercent * share) \div 10000

\* calculateBackoff without the jitter: min(baseBackoffMs * 2^attempt, maxBackoffMs)
cappedDelay_Doubled(attempt) == fetchBaseBackoffMs * Pow(2, attempt + 1)
cappedDelay(attempt) == Min(fetchBaseBackoffMs * Pow(2, attempt), fetchMaxBackoffMs)

\* const waitTime = minIntervalMs - (now - lastRequestTime)
WaitTime_None(t, lastRequestTime) == 0
WaitTime(t, lastRequestTime) == minIntervalMs - (t - lastRequestTime)

InitRate ==
    /\ rlq = [queue |-> <<>>, processing |-> FALSE, lastRequestTime |-> 0,
              item |-> NoCaller, wake |-> 0]
    /\ rlc = [c \in Callers |->
                [st |-> "idle", attempt |-> 0, wake |-> 0, requests |-> 0,
                 backoff |-> 0, answer |-> "", ticket |-> 0]]
    /\ rlg = [grants |-> 0, caller |-> NoCaller, at |-> 0, prev |-> 0,
              acquired |-> 0]
    /\ rticks = 0

\* item.resolve(): the caller's fetch starts.
Granted(callers, c) ==
    [callers EXCEPT ![c].st = "inflight", ![c].requests = @ + 1]

GrantRecord(c, t) ==
    [rlg EXCEPT !.grants = @ + 1, !.caller = c, !.at = t, !.prev = rlg.at]

\* acquire() of caller c at time t: push and processQueue. With the queue
\* being processed the caller waits in the queue; else processQueue takes
\* the item and grants it at once or sleeps for waitTime.
AcquireSlot(c, callers) ==
    LET ticketed == [callers EXCEPT ![c].st = "queued",
                                    ![c].ticket = rlg.acquired + 1]
    IN IF rlq.processing
       THEN /\ rlq' = [rlq EXCEPT !.queue = Append(@, c)]
            /\ rlc' = ticketed
            /\ rlg' = [rlg EXCEPT !.acquired = @ + 1]
       ELSE IF WaitTime(now, rlq.lastRequestTime) > 0
       THEN /\ rlq' = [rlq EXCEPT !.processing = TRUE, !.item = c,
                                  !.wake = now + WaitTime(now, rlq.lastRequestTime)]
            /\ rlc' = ticketed
            /\ rlg' = [rlg EXCEPT !.acquired = @ + 1]
       ELSE /\ rlq' = [rlq EXCEPT !.lastRequestTime = now]
            /\ rlc' = Granted(ticketed, c)
            /\ rlg' = [GrantRecord(c, now) EXCEPT !.acquired = @ + 1]

RateFrame ==
    UNCHANGED <<ticks, queueVars, dbVars, session, history, polls,
                reconcilerVars, flast, plast, upsertVars, membershipVars,
                tokenVars, isRunning, presp>>

\* rateLimitedFetch(url) is called.
RateLimitedFetch(c) ==
    /\ rlc[c].st = "idle"
    /\ AcquireSlot(c, rlc)
    /\ UNCHANGED <<now, rticks>>
    /\ RateFrame

\* A caller whose call has ended calls rateLimitedFetch for its next url.
NextFetchCall(c) ==
    /\ rlc[c].st \in {"returned", "threw"}
    /\ AcquireSlot(c, [rlc EXCEPT ![c].attempt = 0, ![c].requests = 0,
                                  ![c].backoff = 0, ![c].answer = ""])
    /\ UNCHANGED <<now, rticks>>
    /\ RateFrame

\* The timer of processQueue fires: the item gets its slot, and the loop
\* goes on with the next item, for which it sleeps again, or ends.
QueueWake ==
    /\ rlq.processing
    /\ now >= rlq.wake
    /\ rlc' = Granted(rlc, rlq.item)
    /\ rlg' = GrantRecord(rlq.item, now)
    /\ rlq' = IF rlq.queue = <<>>
              THEN [rlq EXCEPT !.lastRequestTime = now, !.processing = FALSE,
                               !.item = NoCaller]
              ELSE IF WaitTime(now, now) > 0
              THEN [rlq EXCEPT !.lastRequestTime = now, !.item = Head(rlq.queue),
                               !.queue = Tail(rlq.queue),
                               !.wake = now + WaitTime(now, now)]
              ELSE [rlq EXCEPT !.lastRequestTime = now, !.item = Head(rlq.queue),
                               !.queue = Tail(rlq.queue), !.wake = now]
    /\ UNCHANGED <<now, rticks>>
    /\ RateFrame

\* The request of caller c is answered. A 503, or a transient error, is
\* retried after the backoff unless attempt has reached maxRetries; every
\* other answer ends the call.
FetchAnswer(c, answer, share) ==
    /\ rlc[c].st = "inflight"
    /\ LET retried == /\ answer \in {"503", "transient"}
                       /\ rlc[c].attempt < fetchMaxRetries
       IN rlc' = [rlc EXCEPT
             ![c].answer = answer,
             ![c].st = IF retried THEN "backoff"
                       ELSE IF answer \in {"200", "404"} THEN "returned"
                       ELSE "threw",
             ![c].backoff = IF retried THEN cappedDelay(rlc[c].attempt) ELSE @,
             ![c].wake = IF retried
                         THEN now + addJitter(cappedDelay(rlc[c].attempt), share)
                         ELSE @]
    /\ UNCHANGED <<now, rlq, rlg, rticks>>
    /\ RateFrame

\* The backoff is over: rateLimitedFetch(url, attempt + 1).
FetchRetry(c) ==
    /\ rlc[c].st = "backoff"
    /\ now >= rlc[c].wake
    /\ AcquireSlot(c, [rlc EXCEPT ![c].attempt = @ + 1])
    /\ UNCHANGED <<now, rticks>>
    /\ RateFrame

\* The timers that are set and have not fired.
PendingWakes ==
    (IF rlq.processing THEN {rlq.wake} ELSE {})
       \cup {rlc[c].wake : c \in {k \in Callers : rlc[k].st = "backoff"}}

\* Time passes: to the next timer, or by half of the minimum interval.
RateTick(t) ==
    /\ rticks < MaxRateTicks
    /\ t > now
    /\ t \in PendingWakes \cup {now + minIntervalMs \div 2}
    /\ \E k \in Callers : rlc[k].st \in {"queued", "inflight", "backoff"}
    /\ now' = t
    /\ rticks' = rticks + 1
    /\ UNCHANGED <<rlq, rlc, rlg>>
    /\ RateFrame

(***************************************************************************)
(* lib/spotify: getValidAccessToken, called for each account the fast loop *)
(* loaded. The column expires_in holds epoch seconds, the tokens are       *)
(* numbered in the order the provider issued them.                         *)
(***************************************************************************)
Accounts == <<"a1", "a2">>

\* The expires_in of a token response: the lifetime of the token, seconds.
TokenLifetimes == {3600}

\* The time between two cycles of the fast loop, ms.
CycleSteps == {500, 1000, 3540000}

\* What may come of a refresh: the grant with or without a new refresh
\* token, a grant request that fails, an UPDATE of the accounts row that
\* fails.
RefreshOutcomes == {"granted", "rotated", "grantFailed", "updateFailed"}

\* Math.floor(Date.now() / 1000)
EpochSeconds(t) == t \div 1000

calculateExpiresAt(expiresIn, t) == EpochSeconds(t) + expiresIn

isTokenExpired_NoMargin(expiresAt, t) ==
    IF expiresAt = Null THEN TRUE ELSE expiresAt < EpochSeconds(t)
isTokenExpired(expiresAt, t) ==
    IF expiresAt = Null
    THEN TRUE
    ELSE expiresAt < EpochSeconds(t) + TOKEN_EXPIRY_SAFETY_MARGIN_SECONDS

NoTokenCall == [calls |-> 0, account |-> "", refreshCalls |-> 0,
                access_token |-> Null, refresh_token |-> Null,
                threw |-> FALSE, returned |-> Null]

\* a1 as routes/auth left it at login, with the lifetime of the token in
\* expires_in; a2 as routes/player left it, with the absolute expiry.
InitToken ==
    /\ accounts = [a \in {"a1", "a2"} |->
                     IF a = "a1"
                     THEN [access_token |-> 1, refresh_token |-> 1,
                           expires_in |-> 3600]
                     ELSE [access_token |-> 2, refresh_token |-> 2,
                           expires_in |-> calculateExpiresAt(3600, StartTime)]]
    /\ taccounts = <<>>
    /\ tlast = NoTokenCall
    /\ tissued = 2
    /\ tcycles = 0

TokenFrame ==
    UNCHANGED <<ticks, queueVars, dbVars, session, history, polls,
                reconcilerVars, flast, plast, upsertVars, membershipVars,
                rateVars, isRunning, presp>>

\* getEligibleAccounts: the accounts with a refresh token.
getEligibleAccounts ==
    SelectSeq([i \in DOMAIN Accounts |->
                 [id |-> Accounts[i], row |-> accounts[Accounts[i]]]],
              LAMBDA a : a.row.refresh_token # Null)

\* runFastLoop: after its sleep a cycle begins and loads the accounts.
LoadAccounts(d) ==
    /\ taccounts = <<>>
    /\ tcycles < MaxCycles
    /\ now' = now + d
    /\ taccounts' = getEligibleAccounts
    /\ tcycles' = tcycles + 1
    /\ UNCHANGED <<accounts, tlast, tissued>>
    /\ TokenFrame

\* processCurrentlyPlayingLoop comes to its next account, whose
\* processCurrentlyPlaying calls getValidAccessToken(account, callback);
\* the callback is the UPDATE of the account's row. A call that returns null
\* ends the account's turn.
GetValidAccessToken(outcome, expiresIn) ==
    /\ taccounts # <<>>
    /\ LET account == Head(taccounts).row
           id == Head(taccounts).id
           call == [NoTokenCall EXCEPT !.calls = tlast.calls + 1, !.account = id]
       IN IF account.access_token # Null /\ ~isTokenExpired(account.expires_in, now)
          THEN /\ tlast' = [call EXCEPT !.returned = account.access_token]
               /\ UNCHANGED <<accounts, tissued>>
          ELSE IF account.refresh_token # Null
          THEN IF outcome = "grantFailed"
               THEN /\ tlast' = [call EXCEPT !.refreshCalls = 1, !.threw = TRUE]
                    /\ UNCHANGED <<accounts, tissued>>
               ELSE LET tokenResponse ==
                          [access_token |-> tissued + 1,
                           refresh_token |-> IF outcome = "rotated"
                                             THEN tissued + 2 ELSE Null,
                           expires_in |-> expiresIn]
                        data ==
                          [access_token |-> tokenResponse.access_token,
                           refresh_token |->
                              IF tokenResponse.refresh_token # Null
                              THEN tokenResponse.refresh_token
                              ELSE account.refresh_token,
                           expires_in |->
                              calculateExpiresAt(tokenResponse.expires_in, now)]
                    IN /\ tissued' = tissued + 2
                       /\ IF outcome = "updateFailed"
                          THEN /\ tlast' = [call EXCEPT
                                              !.refreshCalls = 1,
                                              !.access_token = tokenResponse.access_token,
                                              !.refresh_token = tokenResponse.refresh_token,
                                              !.threw = TRUE]
                               /\ UNCHANGED accounts
                          ELSE /\ tlast' = [call EXCEPT
                                              !.refreshCalls = 1,
                                              !.access_token = tokenResponse.access_token,
                                              !.refresh_token = tokenResponse.refresh_token,
                                              !.returned = tokenResponse.access_token]
                               /\ accounts' = [accounts EXCEPT ![id] = data]
          ELSE /\ tlast' = call
               /\ UNCHANGED <<accounts, tissued>>
    /\ taccounts' = Tail(taccounts)
    /\ UNCHANGED <<now, tcycles>>
    /\ TokenFrame

vars == <<clockVars, queueVars, ingestVars>>

InitQueue ==
    /\ jobs = <<>>
    /\ nextJobId = 1
    /\ wpc = [w \in Workers |-> "top"]
    /\ wbatch = [w \in Workers |-> <<>>]
    /\ wsel = [w \in Workers |-> {}]
    /\ wnow = [w \in Workers |-> 0]
    /\ wfail = [w \in Workers |-> NoRead]
    /\ lastCleanupTime = [w \in Workers |-> 0]
    /\ epc = [e \in Enqueuers |-> "idle"]
    /\ ekey = [e \in Enqueuers |-> CHOOSE k \in JobKeys : TRUE]
    /\ eres = [e \in Enqueuers |-> NoResult]
    /\ econf = [e \in Enqueuers |-> NoJob]

InitClock ==
    /\ now = StartTime
    /\ ticks = 0

InitIngest ==
    /\ tracks = <<>>
    /\ track_artists = {}
    /\ track_albums = {}
    /\ scrobbles = <<>>
    /\ session = <<>>
    /\ cursor = Null
    /\ history = <<>>
    /\ polls = 0
    /\ runs = 0
    /\ rpc = "idle"
    /\ rplays = <<>>
    /\ rbatch = <<>>
    /\ rlatest = Null
    /\ rtrack = 0
    /\ rdup = FALSE
    /\ rlast = <<>>
    /\ rreplay = FALSE
    /\ flast = NoFinalize
    /\ plast = NoPersist
    /\ artists = <<>>
    /\ albums = <<>>
    /\ syncs = {}
    /\ ulast = NoUpsert
    /\ ucalls = 0
    /\ artists_groups = <<>>
    /\ mlast = NoMembership
    /\ mcalls = 0
    /\ mread = [r \in SyncRuns |-> NoFind]
    /\ InitRate
    /\ InitToken
    /\ isRunning = [w \in Workers |-> TRUE]
    /\ presp = NoResponse

Init == InitClock /\ InitQueue /\ InitIngest

NextQueue ==
    \/ \E e \in Enqueuers, key \in JobKeys, maxAttempts \in AttemptOptions :
          EnqueueInsert(e, key, manualPriority, maxAttempts)
    \/ \E e \in Enqueuers : EnqueueLookup(e)
    \/ \E w \in Workers : MaybeRunCleanup(w)
    \/ \E w \in Workers : ClaimSelect(w, batchSize)
    \/ \E w \in Workers : ClaimCommit(w)
    \/ \E w \in Workers : CompleteJob(w)
    \/ \E w \in Workers : FailJobFind(w)
    \/ \E w \in Workers : FailJobUpdate(w)
    \/ \E d \in TimeSteps : Tick(d)

SpecQueue == Init /\ [][NextQueue]_vars

\* One iteration step of a worker's runWorkerLoop with successful jobs.
WorkerStep(w) ==
    \/ MaybeRunCleanup(w)
    \/ ClaimSelect(w, batchSize)
    \/ ClaimCommit(w)
    \/ CompleteJob(w)

\* The clock while a failed job waits for its retry: it passes the longest
\* backoff.
RetryTick ==
    /\ \E j \in JobIds : jobs[j].status = "pending" /\ jobs[j].run_after > now
    /\ now' = now + maxBackoffMs
    /\ UNCHANGED <<ticks, queueVars, ingestVars>>

\* The queue with one worker whose jobs succeed or fail, for jobs that fail
\* for good at the first failure and jobs that are retried up to MaxRetries
\* times.
NextRetry ==
    \/ \E e \in Enqueuers, key \in JobKeys, maxAttempts \in {1, MaxRetries} :
          EnqueueInsert(e, key, manualPriority, maxAttempts)
    \/ \E e \in Enqueuers : EnqueueLookup(e)
    \/ MaybeRunCleanup("w1")
    \/ ClaimSelect("w1", batchSize)
    \/ ClaimCommit("w1")
    \/ CompleteJob("w1")
    \/ FailJobFind("w1")
    \/ FailJobUpdate("w1")
    \/ RetryTick

SpecRetry == Init /\ [][NextRetry]_vars

\* The clock reaching the TTL of a job and passing it.
TtlSteps == {ttlMs, ttlMs + 1}

\* The queue with one worker, jobs that succeed or fail for good, and the
\* clock moving by the TTL.
NextCleanup ==
    \/ \E e \in Enqueuers, key \in JobKeys : EnqueueInsert(e, key, manualPriority, 1)
    \/ \E e \in Enqueuers : EnqueueLookup(e)
    \/ MaybeRunCleanup("w1")
    \/ ClaimSelect("w1", batchSize)
    \/ ClaimCommit("w1")
    \/ CompleteJob("w1")
    \/ FailJobFind("w1")
    \/ FailJobUpdate("w1")
    \/ \E d \in TtlSteps : Tick(d)

SpecCleanup == Init /\ [][NextCleanup]_vars

\* The three upserts called in any order with any of the arguments.
NextUpsert ==
    \/ \E name \in ArtistNames, mbid \in Mbids : UpsertArtist(name, mbid)
    \/ \E title \in AlbumTitles, artistId \in 1..MaxUpserts, mbid \in Mbids :
          UpsertAlbum(title, artistId, mbid)
    \/ \E isrc \in Isrcs, mbid \in Mbids : UpsertTrack(isrc, mbid)

SpecUpsert == Init /\ [][NextUpsert]_vars

\* MB_WORKER_BATCH_SIZE of each worker process: one job at a time, and the
\* default.
BatchSizeOf(w) == IF w = "w1" THEN 1 ELSE batchSize

\* The queue with jobs of two priorities and workers of different batch sizes.
NextOrder ==
    \/ \E e \in Enqueuers, key \in JobKeys,
          priority \in {defaultPriority, manualPriority} :
          EnqueueInsert(e, key, priority, defaultMaxAttempts)
    \/ \E e \in Enqueuers : EnqueueLookup(e)
    \/ \E w \in Workers : MaybeRunCleanup(w)
    \/ \E w \in Workers : ClaimSelect(w, BatchSizeOf(w))
    \/ \E w \in Workers : ClaimCommit(w)
    \/ \E w \in Workers : CompleteJob(w)
    \/ \E d \in TimeSteps : Tick(d)

SpecOrder == Init /\ [][NextOrder]_vars

SyncJob == <<"artist.sync_relationships", "artist", 1>>

\* The queue with a worker that may die: a job is enqueued, the workers poll,
\* one of them may crash, and the clock runs while a lease is held. A worker
\* that is alive keeps polling, and time passes.
\* The step a worker's loop takes next, with its shutdown.
LoopStep(w) ==
    \/ MaybeRunCleanup(w)
    \/ ClaimSelect(w, batchSize)
    \/ ClaimCommit(w)
    \/ CompleteJob(w)
    \/ FailJobFind(w)
    \/ FailJobUpdate(w)
    \/ BreakLoop(w)
    \/ ExitLoop(w)

\* Two worker processes, each of which may be told to shut down at any point
\* of its loop, and jobs that are enqueued, succeed or fail meanwhile.
NextShutdown ==
    \/ \E e \in Enqueuers, key \in JobKeys :
          EnqueueInsert(e, key, manualPriority, defaultMaxAttempts)
    \/ \E e \in Enqueuers : EnqueueLookup(e)
    \/ \E w \in Workers : LoopStep(w)
    \/ \E w \in Workers : Shutdown(w)

\* The event loop runs every continuation that is ready, and the statements
\* of the database return.
SpecShutdown ==
    /\ Init
    /\ [][NextShutdown]_vars
    /\ \A w \in Workers : WF_vars(LoopStep(w))

NextLease ==
    \/ \E e \in Enqueuers :
          /\ jobs = <<>>
          /\ EnqueueInsert(e, SyncJob, manualPriority, defaultMaxAttempts)
    \/ \E w \in Workers : WorkerStep(w)
    \/ \E w \in Workers : Crash(w)
    \/ \E d \in LeaseSteps : LeaseTick(d)

SpecLease ==
    /\ Init
    /\ [][NextLease]_vars
    /\ \A w \in Workers : WF_vars(WorkerStep(w))
    /\ WF_vars(\E d \in LeaseSteps : LeaseTick(d))

\* The clock while something in the queue waits for it: a lease that has not
\* run out, or a failed job whose retry is not yet due. It passes the lease
\* and every backoff a job of at most defaultMaxAttempts attempts can get.
WaitTick ==
    /\ \E j \in JobIds :
          \/ LeaseHeld(jobs[j], now)
          \/ jobs[j].status = "pending" /\ jobs[j].run_after > now
    /\ now' = now + lockTimeoutMs + 1
    /\ UNCHANGED <<ticks, queueVars, ingestVars>>

\* maxAttempts of the enqueued job: failed for good at the first failure, or
\* retried once.
LiveAttempts == {1, 2}

\* The queue with its two worker processes: one job is enqueued and succeeds
\* or fails; worker w1 may die while it processes a job or be told to shut down
\* at any point of its loop, worker w2 keeps polling; the clock runs while a
\* lease or a backoff is pending.
NextLive ==
    \/ \E e \in Enqueuers, maxAttempts \in LiveAttempts :
          /\ nextJobId = 1
          /\ EnqueueInsert(e, SyncJob, manualPriority, maxAttempts)
    \/ \E w \in Workers : LoopStep(w)
    \/ Crash("w1")
    \/ Shutdown("w1")
    \/ WaitTick

\* The event loop of a live process runs every continuation that is ready,
\* the statements of the database return, and time passes.
SpecLive ==
    /\ Init
    /\ [][NextLive]_vars
    /\ \A w \in Workers : WF_vars(LoopStep(w))
    /\ WF_vars(WaitTick)

\* The fast loop alone: every answer of the endpoint, every time between two
\* polls, with and without a failing write of the session row.
NextFast ==
    \E d \in PollSteps, resp \in Responses, writeOk \in BOOLEAN :
        ProcessCurrentlyPlaying(d, resp, writeOk)

SpecFast == Init /\ [][NextFast]_vars

\* Two callers of rateLimitedFetch in one process; the metadata service
\* answers 200 or 503; no jitter.
NextRate ==
    \/ \E c \in Callers : RateLimitedFetch(c)
    \/ QueueWake
    \/ \E c \in Callers, answer \in {"200", "503"} : FetchAnswer(c, answer, 0)
    \/ \E c \in Callers : FetchRetry(c)
    \/ \E t \in PendingWakes \cup {now + minIntervalMs \div 2} : RateTick(t)

SpecRate == Init /\ [][NextRate]_vars

\* One caller of rateLimitedFetch, every answer and every jitter.
NextFetch ==
    \/ RateLimitedFetch("c1")
    \/ NextFetchCall("c1")
    \/ QueueWake
    \/ \E answer \in Answers, share \in JitterShares : FetchAnswer("c1", answer, share)
    \/ FetchRetry("c1")
    \/ \E t \in PendingWakes \cup {now + minIntervalMs \div 2} : RateTick(t)

SpecFetch == Init /\ [][NextFetch]_vars

\* The memberships of one member in two groups, synced one call at a time.
NextToken ==
    \/ \E d \in CycleSteps : LoadAccounts(d)
    \/ \E outcome \in RefreshOutcomes, expiresIn \in TokenLifetimes :
          GetValidAccessToken(outcome, expiresIn)

SpecToken == Init /\ [][NextToken]_vars

NextMembership ==
    \E groupId \in Groups, beginRaw \in BeginDates, endRaw \in EndDates,
       ended \in BOOLEAN :
        UpsertMembershipPeriod(Member, groupId, beginRaw, endRaw, ended)

SpecMembership == Init /\ [][NextMembership]_vars

\* Two sync runs whose calls for the pairs of the member interleave.
NextSync ==
    \/ \E r \in SyncRuns, groupId \in Groups, beginRaw \in BeginDates,
          endRaw \in EndDates, ended \in BOOLEAN :
           MembershipFind(r, Member, groupId, beginRaw, endRaw, ended)
    \/ \E r \in SyncRuns : MembershipWrite(r)

SpecSync == Init /\ [][NextSync]_vars

\* Polls around the wrap bound: a 40 s track, whose bound is the minimum
\* tolerance, and the 200 s track, whose bound is 35 percent of its duration,
\* at progress values that jump back by the bound and by one more.
WrapUris == {"spotify:track:isrc", "spotify:track:200s"}
WrapProgress == {0, 15000, 15001, 70000, 70001}
WrapResponses ==
    [kind : {"track"}, uri : WrapUris, name : {"title"},
     progress_ms : WrapProgress, is_playing : BOOLEAN]

NextWrap ==
    \E resp \in WrapResponses : ProcessCurrentlyPlaying(pollIntervalMs, resp, TRUE)

SpecWrap == Init /\ [][NextWrap]_vars

\* The fast loop while the two long tracks play, loop and follow each other.
\* The 200 s track, played, paused, sought forward by more than maxDeltaMs,
\* sought back a little and restarted; its name may change between polls.
AccProgress == {5000, 10000, 18000, 26000, 60000, 150000}
AccResponses ==
    [kind : {"track"}, uri : {"spotify:track:200s"}, name : {"title", "retitled"},
     progress_ms : AccProgress, is_playing : BOOLEAN]

NextAccumulate ==
    \E resp \in AccResponses :
       /\ polls < MaxAccPolls
       /\ ObservedPoll(pollIntervalMs, resp, TRUE)

SpecAccumulate == Init /\ [][NextAccumulate]_vars

\* The 90 s track is played for a while, then the endpoint has no track. The
\* polls are one interval apart or so far apart that a session last seen one
\* interval ago has been idle for staleSessionMs, or for 1 ms more.
IdleResponses ==
    {NothingPlaying} \cup
    [kind : {"track"}, uri : {"spotify:track:90s"}, name : {"title"},
     progress_ms : {0, 30000, 60000}, is_playing : {TRUE}]
IdleSteps == {pollIntervalMs, staleSessionMs - pollIntervalMs,
              staleSessionMs - pollIntervalMs + 1}

NextIdle ==
    \E resp \in IdleResponses, d \in IdleSteps :
       /\ polls < MaxIdlePolls
       /\ ObservedPoll(d, resp, TRUE)

SpecIdle == Init /\ [][NextIdle]_vars

\* The listener goes back and forth between the 40 s track and the 90 s track.
ChangeUris == {"spotify:track:isrc", "spotify:track:90s"}
ChangeResponses ==
    [kind : {"track"}, uri : ChangeUris, name : {"title"},
     progress_ms : ProgressValues, is_playing : BOOLEAN]

NextChange ==
    \E resp \in ChangeResponses :
       /\ polls < MaxPolls
       /\ ObservedPoll(pollIntervalMs, resp, TRUE)

SpecChange == Init /\ [][NextChange]_vars

NextSession == \E resp \in LongResponses : ProcessLongPlaying(resp)

SpecSession == Init /\ [][NextSession]_vars

ReconcilerStep ==
    \/ ReconcileFetch
    \/ ReconcileEvent
    \/ ReconcilePersist
    \/ \E writeOk \in BOOLEAN : ReconcileFinish(writeOk)

\* The reconciler alone, while nothing is playing when the fast loop polls.
NextReconciler ==
    \/ \E uri \in Uris : ProviderPlay(uri)
    \/ ReconcilerStep
    \/ \E d \in PollSteps : ProcessCurrentlyPlaying(d, NothingPlaying, TRUE)

SpecReconciler == Init /\ [][NextReconciler]_vars

\* The scrobble worker: the fast loop and the reconciler side by side.
NextIngest ==
    \/ \E resp \in PlayingResponses :
          ProcessCurrentlyPlaying(pollIntervalMs, resp, TRUE)
    \/ \E uri \in PlayedUris : ProviderPlay(uri)
    \/ ReconcilerStep

SpecIngest == Init /\ [][NextIngest]_vars

\* The reconciler with calls that fail before the fetch and events whose
\* metadata or insert raises an error, while nothing is playing when the fast
\* loop polls.
NextCursor ==
    \/ \E uri \in PlayedUris : ProviderPlay(uri)
    \/ \E d \in PollSteps : ProcessCurrentlyPlaying(d, NothingPlaying, TRUE)
    \/ ReconcileFetch
    \/ ReconcileFetchFails
    \/ ReconcileEvent
    \/ ReconcileEventFails
    \/ ReconcilePersist
    \/ ReconcilePersistFails
    \/ ReconcileFinish(TRUE)

SpecCursor == Init /\ [][NextCursor]_vars

\* The reconciler over plays of the 40 s and the 90 s track that begin 8 s,
\* 50 s or more than 30 min after the play before.
EstimateUris == {"spotify:track:isrc", "spotify:track:90s"}
EstimateSteps == {pollIntervalMs, 50 * 1000, staleSessionMs + 1}

NextEstimate ==
    \/ \E uri \in EstimateUris : ProviderPlay(uri)
    \/ \E d \in EstimateSteps : ProcessCurrentlyPlaying(d, NothingPlaying, TRUE)
    \/ ReconcilerStep

SpecEstimate == Init /\ [][NextEstimate]_vars

\* Both paths while the 40 s track is played with seeks: forward by up to
\* maxDeltaMs, back by less than the wrap bound, so that the session
\* accumulates more than the track lasts; then the 90 s track starts. The
\* provider lists plays of the two tracks meanwhile.
DurationProgress == {0, 15000, 30000, 40000}
DurationResponses ==
    [kind : {"track"}, uri : {"spotify:track:isrc"}, name : {"title"},
     progress_ms : DurationProgress, is_playing : {TRUE}]
    \cup [kind : {"track"}, uri : {"spotify:track:90s"}, name : {"title"},
          progress_ms : {0}, is_playing : {TRUE}]

NextDuration ==
    \/ \E resp \in DurationResponses :
          /\ polls < MaxAccPolls
          /\ PollStep(pollIntervalMs, resp, TRUE)
    \/ \E uri \in EstimateUris : ProviderPlay(uri)
    \/ ReconcileFetch
    \/ ReconcileEvent
    \/ ReconcilePersist
    \/ ReconcileFinish(TRUE)

SpecDuration == Init /\ [][NextDuration]_vars

\* Both loops, with polls that come 5 s, 5 s and 1 ms or one interval after
\* the last, so that a session starts at these distances from a play the
\* provider has recorded: a play of the track without identifiers, while the
\* polls see the track with the ISRC play and then that track begin.
DedupeSteps == {finalizeWindowMs, finalizeWindowMs + 1, pollIntervalMs}
DedupeResponses ==
    {r \in Responses :
        /\ r.kind = "track" /\ r.is_playing
        /\ \/ r.uri = "spotify:track:isrc"
           \/ r.uri = "spotify:track:bare" /\ r.progress_ms = 0}

NextDedupe ==
    \/ \E resp \in DedupeResponses, d \in DedupeSteps :
          ProcessCurrentlyPlaying(d, resp, TRUE)
    \/ ProviderPlay("spotify:track:bare")
    \/ ReconcileFetch
    \/ ReconcileEvent
    \/ ReconcilePersist
    \/ ReconcileFinish(TRUE)

SpecDedupe == Init /\ [][NextDedupe]_vars

(***************************************************************************)
(* Properties of the queue                                                 *)
(***************************************************************************)
\* C1: in every reachable state at most one job with status pending or
\* running exists for each (job_type, entity_type, entity_id).
C1_OneActiveJobPerKey ==
    \A a \in JobIds, b \in JobIds :
        (IsActive(jobs[a]) /\ IsActive(jobs[b]) /\ KeyOf(jobs[a]) = KeyOf(jobs[b]))
            => a = b

\* The index has rejected failJob's update: a worker is in the loop's catch
\* block while another job of its job's key is active.
C1_Witness ==
    \E w \in Workers :
        /\ wpc[w] = "catch"
        /\ \E b \in JobIds : /\ b # CurrentJob(w).id
                             /\ IsActive(jobs[b])
                             /\ KeyOf(jobs[b]) = <<CurrentJob(w).job_type,
                                                   CurrentJob(w).entity_type,
                                                   CurrentJob(w).entity_id>>

\* C2: an enqueueJob call that found an active job of its key returns
\* created = false, reason = 'already_active' and the id of that active job,
\* never null.
C2_AlreadyActiveReturnsExistingId ==
    \A e \in Enqueuers :
        eres[e].reason = "already_active" =>
            /\ eres[e].created = FALSE
            /\ eres[e].jobId # NoJob
            /\ eres[e].jobId = econf[e]

\* C3: a claimJobs call returns a job only if the job was pending with
\* run_after <= now or running with locked_at older than the lease timeout,
\* now being the time the call computed; afterwards the job is running with
\* locked_at = now and locked_by = the caller, and no claimJobs call in flight
\* at the same time holds the job.
C3_ClaimedOnceAndLeased ==
    [][\A w \in Workers :
         (wpc[w] = "claiming" /\ wpc'[w] # "claiming") =>
            \A j \in ReturnedIds(wbatch'[w]) :
               /\ j \in JobIds
               /\ \/ jobs[j].status = "pending" /\ jobs[j].run_after <= wnow[w]
                  \/ /\ jobs[j].status = "running"
                     /\ jobs[j].locked_at # Null
                     /\ jobs[j].locked_at < wnow[w] - lockTimeoutMs
               /\ jobs'[j].status = "running"
               /\ jobs'[j].locked_at = wnow[w]
               /\ jobs'[j].locked_by = w
               /\ \A v \in Workers \ {w} :
                     j \notin wsel[v]]_vars

\* One worker's claimJobs call has returned a job while another worker's
\* call, begun before that, is still in flight with a job of its own.
C3_Witness ==
    \E w \in Workers, v \in Workers :
        /\ w # v
        /\ wpc[w] = "run"
        /\ CurrentJob(w).id \in JobIds
        /\ jobs[CurrentJob(w).id].status = "running"
        /\ jobs[CurrentJob(w).id].locked_by = w
        /\ wpc[v] = "claiming"
        /\ wsel[v] # {}

\* processJob(job) of the worker's current job is running.
Processing(w) == wpc[w] = "run"

\* C4: never are two workers processing the same job, or two jobs of the
\* same (job_type, entity_type, entity_id), at the same time.
C4_NoConcurrentProcessing ==
    \A w \in Workers, v \in Workers :
        (w # v /\ Processing(w) /\ Processing(v)) =>
            /\ CurrentJob(w).id # CurrentJob(v).id
            /\ <<CurrentJob(w).job_type, CurrentJob(w).entity_type,
                 CurrentJob(w).entity_id>>
               # <<CurrentJob(v).job_type, CurrentJob(v).entity_type,
                    CurrentJob(v).entity_id>>

(***************************************************************************)
(* Properties of the two ingestion paths                                   *)
(***************************************************************************)
\* C5: no two scrobbles share (user_id, track_id, played_at), and a persist
\* whose key is already there returns false and leaves one row with the key.
C5_UniqueScrobbleKey ==
    /\ \A i, j \in DOMAIN scrobbles :
          ScrobbleKey(scrobbles[i]) = ScrobbleKey(scrobbles[j]) => i = j
    /\ plast.existed =>
          /\ ~plast.returned
          /\ Cardinality({i \in DOMAIN scrobbles :
                              ScrobbleKey(scrobbles[i]) = plast.key}) = 1

\* The reconciler reached its insert after the fast loop had stored the key.
C5_Witness ==
    /\ plast.existed
    /\ plast.via = "recently-played"
    /\ \E i \in DOMAIN scrobbles :
          /\ ScrobbleKey(scrobbles[i]) = plast.key
          /\ scrobbles[i].via = "currently-playing"

\* C6: a playback session, identified by its started_at, yields at most one
\* scrobble of the fast loop, whatever the polls and failed session writes.
C6_OneScrobblePerSession ==
    \A i, j \in DOMAIN scrobbles :
        /\ scrobbles[i].via = "currently-playing"
        /\ scrobbles[j].via = "currently-playing"
        /\ scrobbles[i].played_at = scrobbles[j].played_at
        => i = j

\* A session that was scrobbled, not replaced, and finalized once more.
C6_Witness ==
    /\ session # <<>>
    /\ flast.outcome = "exists"
    /\ flast.started_at = session[1].started_at
    /\ \E i \in DOMAIN scrobbles : scrobbles[i].played_at = session[1].started_at

\* C7: the cursor last_played_at never decreases, and once set stays set.
C7_CursorNeverDecreases == [][cursor' >= cursor]_vars

\* The second run moved the cursor from the first play to the second.
C7_Witness ==
    /\ runs = 2
    /\ rpc = "idle"
    /\ Len(history) = 2
    /\ rlast = <<history[2]>>
    /\ cursor = history[2].played_at

\* C8: processing the same recently-played response a second time inserts no
\* scrobble.
C8_ReplayInsertsNothing ==
    [][(rreplay /\ rpc = "persist") => scrobbles' = scrobbles]_vars

\* A scrobble of the fast loop for the provider's track `uri`, within the
\* dedupe window of playedAt.
FastScrobbleInWindow(uri, playedAt) ==
    \E i \in DOMAIN scrobbles :
        /\ scrobbles[i].via = "currently-playing"
        /\ scrobbles[i].user_id = User
        /\ tracks[scrobbles[i].track_id].title = uri
        /\ scrobbles[i].played_at >= playedAt - DEDUPE_WINDOW_MS
        /\ scrobbles[i].played_at <= playedAt + DEDUPE_WINDOW_MS

\* C9: when the fast loop has stored a scrobble of a track, persistScrobble
\* finds a play of the same track within 10 minutes of it to be a duplicate,
\* and for a duplicate it inserts nothing and ensures the track's links.
C9_CrossPathDedupe ==
    [][/\ ( /\ rpc = "loop"
            /\ rpc' = "persist"
            /\ FastScrobbleInWindow(Head(rbatch).uri, Head(rbatch).playedAt) )
          => rdup'
       /\ (rpc = "persist" /\ rdup)
          => /\ scrobbles' = scrobbles
             /\ rtrack \in track_artists'
             /\ rtrack \in track_albums']_vars

\* C10: every scrobble has played_duration_ms >= 0 and comes from a play whose
\* measured time reaches 30 s or half of the track's duration.
C10_ThresholdMet ==
    \A i \in DOMAIN scrobbles :
        /\ scrobbles[i].played_duration_ms >= 0
        /\ \/ scrobbles[i].p >= minPlaySeconds * 1000
           \/ scrobbles[i].p * 100 >= scrobbles[i].duration * minPlayPercent

\* Both paths have written a scrobble.
C10_Witness ==
    /\ \E i \in DOMAIN scrobbles : scrobbles[i].via = "currently-playing"
    /\ \E i \in DOMAIN scrobbles : scrobbles[i].via = "recently-played"

(***************************************************************************)
(* Properties of leases, ordering, retries and cleanup                     *)
(***************************************************************************)
\* The job a dead worker was processing still carries that worker's lease,
\* and no other worker holds the job from an earlier claim.
LeftByCrash(j, w) ==
    /\ wpc[w] = "dead"
    /\ j \in JobIds
    /\ CurrentJob(w).id = j
    /\ jobs[j].status = "running"
    /\ jobs[j].locked_by = w
    /\ \A v \in Workers \ {w} : j \notin ReturnedIds(wbatch[v])

Takeable(t) ==
    {j \in JobIds :
        /\ j \notin LockedRows
        /\ \/ jobs[j].status = "pending" /\ jobs[j].run_after <= t
           \/ /\ jobs[j].status = "running"
              /\ jobs[j].locked_at # Null
              /\ jobs[j].locked_at < t - lockTimeoutMs}

\* C12: claimJobs(worker, N) takes min(N, number of claimable unlocked jobs)
\* jobs, no job it leaves has a higher priority, or the same priority and an
\* earlier created_at, than a job it takes, and it returns the jobs it took.
C12_ClaimOrder ==
    [][\A w \in Workers :
         /\ (wpc[w] # "claiming" /\ wpc'[w] = "claiming") =>
               /\ wsel'[w] \subseteq Takeable(now)
               /\ Cardinality(wsel'[w])
                     = Min(BatchSizeOf(w), Cardinality(Takeable(now)))
               /\ \A a \in wsel'[w], b \in Takeable(now) \ wsel'[w] :
                     /\ jobs[b].priority <= jobs[a].priority
                     /\ jobs[b].priority = jobs[a].priority
                           => jobs[b].created_at >= jobs[a].created_at
         /\ (wpc[w] = "claiming" /\ wpc'[w] # "claiming") =>
               ReturnedIds(wbatch'[w]) = wsel[w]]_vars

\* A call for one job has taken the job of higher priority and left a
\* claimable job that was created earlier.
C12_Witness ==
    \E w \in Workers, b \in JobIds :
        /\ wpc[w] = "run"
        /\ Len(wbatch[w]) = 1
        /\ CurrentJob(w).id \in JobIds
        /\ jobs[CurrentJob(w).id].locked_by = w
        /\ jobs[b].status = "pending"
        /\ jobs[b].run_after <= jobs[CurrentJob(w).id].locked_at
        /\ jobs[b].priority < jobs[CurrentJob(w).id].priority
        /\ jobs[b].created_at < jobs[CurrentJob(w).id].created_at

\* C13: failJob on a job with attempts = a writes attempts = a + 1 and the
\* error, and clears locked_at and locked_by; the status becomes failed if and
\* only if a + 1 >= max_attempts, and otherwise pending with run_after = the
\* call's now + backoff.
C13_FailJobEffect ==
    [][\A w \in Workers :
         ( /\ wpc[w] \in {"failing", "failingCatch"}
           /\ wpc'[w] # wpc[w]
           /\ CurrentJob(w).id \in JobIds
           /\ jobs'[CurrentJob(w).id] # jobs[CurrentJob(w).id] ) =>
            LET id == CurrentJob(w).id
                a == jobs[id].attempts
                r == jobs'[id]
            IN /\ r.attempts = a + 1
               /\ r.last_error # ""
               /\ r.locked_at = Null
               /\ r.locked_by = NoWorker
               /\ r.status = "failed" <=> a + 1 >= jobs[id].max_attempts
               /\ r.status # "failed" =>
                     /\ r.status = "pending"
                     /\ r.run_after = wfail[w].now + BackoffMs(a + 1)]_vars

\* One job has failed for good, another waits for its retry.
C13_Witness ==
    \E a \in JobIds, b \in JobIds :
        /\ jobs[a].status = "failed"
        /\ jobs[a].attempts = jobs[a].max_attempts
        /\ jobs[a].locked_by = NoWorker
        /\ jobs[b].status = "pending"
        /\ jobs[b].attempts > 0
        /\ jobs[b].attempts < jobs[b].max_attempts
        /\ jobs[b].last_error # ""

\* The delay of a job waiting for its retry: failJob wrote run_after = now +
\* backoff and updated_at = now.
RetryDelay(row) == row.run_after - row.updated_at

\* C14: the delay after the N-th failure is min(60000 * 2^(N-1), 3600000): it
\* is 60000 after the first failure, never above 3600000, and does not
\* decrease with N.
C14_BackoffDelay ==
    /\ \A j \in JobIds :
          (jobs[j].status = "pending" /\ jobs[j].attempts >= 1) =>
             /\ RetryDelay(jobs[j])
                  = Min(60000 * Pow(2, jobs[j].attempts - 1), 3600000)
             /\ jobs[j].attempts = 1 => RetryDelay(jobs[j]) = 60000
             /\ RetryDelay(jobs[j]) <= 3600000
    /\ \A n \in 1..MaxRetries : BackoffMs(n) <= BackoffMs(n + 1)

\* A job waits for its retry with the delay at the cap.
C14_Witness ==
    \E j \in JobIds :
        /\ jobs[j].status = "pending"
        /\ jobs[j].attempts >= 7
        /\ RetryDelay(jobs[j]) = maxBackoffMs

\* C15: a cleanup deletes exactly the jobs with status succeeded or failed
\* whose updated_at is before now - TTL, hence no pending or running job, and
\* leaves every other row as it was.
C15_CleanupDeletesExpired ==
    [][\A w \in Workers :
         (wpc[w] = "top" /\ wpc'[w] = "claim") =>
            /\ DOMAIN jobs' =
                  {j \in JobIds :
                     ~ ( /\ jobs[j].status \in {"succeeded", "failed"}
                         /\ jobs[j].updated_at < now - jobTtlDays * 24 * 60 * 60 * 1000 )}
            /\ \A j \in DOMAIN jobs' : jobs'[j] = jobs[j]
            /\ \A j \in JobIds \ DOMAIN jobs' :
                  jobs[j].status \notin {"pending", "running"}]_vars

\* A cleanup has deleted the first job and kept the second.
C15_Witness ==
    /\ wpc["w1"] = "claim"
    /\ lastCleanupTime["w1"] = now
    /\ 1 \notin JobIds
    /\ 2 \in JobIds

(***************************************************************************)
(* Properties of the upserts                                               *)
(***************************************************************************)
\* C16: when upsertArtist attaches an mbid to an existing artist row that had
\* none, a pending or running artist.sync_relationships job for that artist
\* is in the queue afterwards.
C16_AttachEnqueuesSyncJob ==
    [][\A i \in DOMAIN artists :
          (artists[i].mbid = Null /\ artists'[i].mbid # Null)
          => \E j \in DOMAIN jobs' :
                /\ jobs'[j].status \in {"pending", "running"}
                /\ jobs'[j].job_type = "artist.sync_relationships"
                /\ jobs'[j].entity_type = "artist"
                /\ jobs'[j].entity_id = i]_vars

\* C17: an upsert called a second time with the same arguments returns the
\* same id as the first call and leaves the number of rows unchanged.
C17_UpsertIdempotent ==
    [][( /\ ucalls' = ucalls + 1
         /\ ulast'.fn = ulast.fn
         /\ ulast'.args = ulast.args
         /\ ~ulast.threw
         /\ ~ulast'.threw )
       => /\ ulast'.id = ulast.id
          /\ Len(artists') = Len(artists)
          /\ Len(albums') = Len(albums)
          /\ Len(tracks') = Len(tracks)]_vars

\* C18: after upsertTrack returns id t for metadata with a non-null ISRC i,
\* the lookup of tracks by ISRC i finds the row t.
C18_IsrcRoundTrip ==
    [][( /\ ucalls' = ucalls + 1
         /\ ulast'.fn = "upsertTrack"
         /\ ~ulast'.threw
         /\ ulast'.args[1] # Null )
       => {i \in DOMAIN tracks' : tracks'[i].isrc = ulast'.args[1]}
             = {ulast'.id}]_vars

(***************************************************************************)
(* Properties of finalization                                              *)
(***************************************************************************)
\* C19: a finalized play is stored with the track's duration when
\* accumulated_ms + end_margin_ms >= duration and with accumulated_ms
\* otherwise, and it is marked skipped exactly when the stored time is less
\* than skip_threshold_percent of the duration; so a play within the end
\* margin is a full play that is not skipped, and 48 000 ms of a 90 000 ms
\* track are stored as 48 000 ms, skipped.
C19_EffectiveDuration ==
    \A i \in DOMAIN scrobbles :
       scrobbles[i].via = "currently-playing" =>
          LET row == scrobbles[i]
              effective_ms == IF row.p + endMarginMs >= row.duration
                              THEN row.duration ELSE row.p
          IN /\ row.played_duration_ms = effective_ms
             /\ row.skipped <=> (effective_ms * 100 < row.duration * skipThresholdPercent)
             /\ row.p + endMarginMs >= row.duration
                   => row.played_duration_ms = row.duration /\ ~row.skipped
             /\ (row.duration = 90000 /\ row.p = 48000)
                   => row.played_duration_ms = 48000 /\ row.skipped

\* Both plays have been stored: 48 000 ms of the 90 000 ms track, and a play
\* of it that ended within the end margin.
C19_Witness ==
    /\ \E i \in DOMAIN scrobbles :
          /\ scrobbles[i].duration = 90000
          /\ scrobbles[i].p = 48000
          /\ scrobbles[i].skipped
    /\ \E i \in DOMAIN scrobbles :
          /\ scrobbles[i].p < scrobbles[i].duration
          /\ scrobbles[i].played_duration_ms = scrobbles[i].duration

\* The poll of the loop scenario: the session of the 200 000 ms track has
\* accumulated 180 000 ms at progress 180 000, and the track is seen again at
\* progress 5 000.
LoopPoll ==
    /\ polls' = polls + 1
    /\ session # <<>>
    /\ session' # <<>>
    /\ IF session # <<>> /\ session' # <<>>
       THEN /\ session[1].track_duration_ms = 200000
            /\ session[1].accumulated_ms = 180000
            /\ session[1].last_progress_ms = 180000
            /\ session[1].is_playing
            /\ session'[1].track_uri = session[1].track_uri
            /\ session'[1].last_progress_ms = 5000
       ELSE FALSE

\* What the poll of the loop scenario does besides storing the play: the old
\* session is finalized as one play and a new session with accumulated_ms = 0
\* starts at the new progress.
LoopRestart ==
    /\ flast' = [started_at |-> session[1].started_at, outcome |-> "inserted"]
    /\ Len(scrobbles') = Len(scrobbles) + 1
    /\ scrobbles'[Len(scrobbles')].played_at = session[1].started_at
    /\ session'[1].accumulated_ms = 0
    /\ session'[1].last_progress_ms = 5000
    /\ session'[1].started_at = now'
    /\ session'[1].started_at # session[1].started_at

\* C20: in the loop scenario the wrap is detected: the old session is
\* finalized as one play whose stored duration equals the track's duration
\* (through the end margin) and which is not skipped, and a new session with
\* accumulated_ms = 0 starts at the new progress.
C20_LoopScenario ==
    [][LoopPoll =>
          /\ LoopRestart
          /\ scrobbles'[Len(scrobbles')].played_duration_ms = 200000
          /\ ~scrobbles'[Len(scrobbles')].skipped]_vars

\* C20, amended: in the loop scenario the wrap is detected: the old session
\* is finalized as one play that is stored with the 180 000 ms accumulated
\* (180 000 + end_margin_ms is less than the duration, so the end margin does
\* not apply) and that is not skipped (180 000 is not less than 90 percent of
\* the duration), and a new session with accumulated_ms = 0 starts at the new
\* progress.
C20_LoopScenarioAmended ==
    [][LoopPoll =>
          /\ LoopRestart
          /\ scrobbles'[Len(scrobbles')].played_duration_ms = 180000
          /\ scrobbles'[Len(scrobbles')].played_duration_ms
                < 200000 - endMarginMs
          /\ ~scrobbles'[Len(scrobbles')].skipped]_vars

\* The loop has been played: the play is stored with 180 000 ms, not skipped,
\* and the new session is at progress 5 000 with nothing accumulated.
C20_Witness ==
    /\ session # <<>>
    /\ IF session # <<>>
       THEN /\ session[1].track_duration_ms = 200000
            /\ session[1].last_progress_ms = 5000
            /\ session[1].accumulated_ms = 0
       ELSE FALSE
    /\ \E i \in DOMAIN scrobbles :
          /\ scrobbles[i].duration = 200000
          /\ scrobbles[i].p = 180000
          /\ scrobbles[i].played_duration_ms = 180000
          /\ ~scrobbles[i].skipped

(***************************************************************************)
(* Properties of the session engine's polls                                *)
(***************************************************************************)
\* A poll that found a session and a track with the session's uri.
SameUriPoll ==
    /\ polls' = polls + 1
    /\ session # <<>>
    /\ session' # <<>>
    /\ IF session # <<>> /\ session' # <<>>
       THEN session'[1].track_uri = session[1].track_uri
       ELSE FALSE

\* C21: on a same-uri poll a wrap is detected if and only if the stored
\* is_playing was true and last_progress_ms - progress_ms is greater than
\* max(wrap_min_tolerance_ms, duration * wrap_threshold_percent / 100); on a
\* wrap the old session is finalized and replaced by a fresh session
\* (started_at = now, accumulated_ms = 0, scrobbled = false); a backward jump
\* at or below the bound never starts a new session.
C21_WrapDetection ==
    [][SameUriPoll =>
          LET old == session[1]
              new == session'[1]
              back == old.last_progress_ms - new.last_progress_ms
              wrap == /\ old.is_playing
                      /\ back > 15000
                      /\ back * 100 > new.track_duration_ms * 35
          IN IF wrap
             THEN /\ flast' # flast
                  /\ flast'.started_at = old.started_at
                  /\ new.started_at = now'
                  /\ new.started_at # old.started_at
                  /\ new.accumulated_ms = 0
                  /\ ~new.scrobbled
             ELSE /\ new.started_at = old.started_at
                  /\ flast' = flast
                  /\ scrobbles' = scrobbles]_vars

\* The 200 s track has wrapped at the third poll: its first play is stored and
\* the session of the same track has just started anew.
C21_Witness ==
    /\ polls = 3
    /\ session # <<>>
    /\ IF session # <<>>
       THEN /\ session[1].track_duration_ms = 200000
            /\ session[1].started_at = now
            /\ session[1].accumulated_ms = 0
            /\ \E i \in DOMAIN scrobbles :
                  /\ scrobbles[i].duration = 200000
                  /\ flast = [started_at |-> scrobbles[i].played_at,
                              outcome |-> "inserted"]
       ELSE FALSE

(***************************************************************************)
(* Properties of the membership periods                                    *)
(***************************************************************************)
\* a is a prefix of b (no date is a prefix of every date).
IsPrefix(a, b) == Len(a) <= Len(b) /\ \A k \in 1..Len(a) : a[k] = b[k]

\* Two raw dates are prefix-related, or one of them is null.
PrefixRelated(a, b) == IsPrefix(a, b) \/ IsPrefix(b, a)

\* C22: with an exact (begin_raw, end_raw) match only `ended` may change;
\* otherwise, if a stint of the pair is compatible, that stint is updated in
\* place exactly when an incoming raw date is strictly longer than the stored
\* one or `ended` differs, and no row is inserted; a row is inserted only
\* when no stint is compatible. Stored ('2001', null) with incoming
\* ('2001-06-15', null) updates the raw and the normalized begin and adds no
\* row.
C22_MembershipUpsert ==
    [][mcalls' = mcalls + 1 =>
        LET ag == artists_groups
            memberId == mlast'.args[1]
            groupId == mlast'.args[2]
            b == mlast'.args[3]
            e == mlast'.args[4]
            en == mlast'.args[5]
            pair == {i \in DOMAIN ag : ag[i].member_id = memberId
                                        /\ ag[i].group_id = groupId}
            exact == {i \in pair : ag[i].begin_raw = b /\ ag[i].end_raw = e}
            compat == {i \in pair : /\ PrefixRelated(ag[i].begin_raw, b)
                                     /\ PrefixRelated(ag[i].end_raw, e)}
            id == mlast'.id
        IN IF exact # {}
           THEN /\ Len(artists_groups') = Len(ag)
                /\ id \in exact
                /\ \A i \in DOMAIN ag :
                      artists_groups'[i] =
                         IF i = id THEN [ag[i] EXCEPT !.ended = en] ELSE ag[i]
           ELSE IF compat # {}
           THEN /\ Len(artists_groups') = Len(ag)
                /\ id \in compat
                /\ \A i \in DOMAIN ag \ {id} : artists_groups'[i] = ag[i]
                /\ IF id \in compat
                   THEN LET old == ag[id]
                            new == artists_groups'[id]
                            longerB == Len(b) > Len(old.begin_raw)
                            longerE == Len(e) > Len(old.end_raw)
                        IN /\ new.begin_raw = IF longerB THEN b ELSE old.begin_raw
                           /\ new.end_raw = IF longerE THEN e ELSE old.end_raw
                           /\ ~longerB => new.begin_date = old.begin_date
                           /\ ~longerE => new.end_date = old.end_date
                           /\ new.ended = en
                           /\ (new # old) <=> (longerB \/ longerE \/ old.ended # en)
                           /\ mlast'.updated <=> (longerB \/ longerE \/ old.ended # en)
                           /\ ( /\ old.begin_raw = Raw2001 /\ old.end_raw = NoDate
                                /\ b = Raw2001_06_15 /\ e = NoDate )
                              => /\ new.begin_raw = Raw2001_06_15
                                 /\ new.begin_date = <<2001, 6, 15>>
                   ELSE FALSE
           ELSE /\ Len(artists_groups') = Len(ag) + 1
                /\ \A i \in DOMAIN ag : artists_groups'[i] = ag[i]
                /\ artists_groups'[Len(ag) + 1].begin_raw = b
                /\ artists_groups'[Len(ag) + 1].end_raw = e
                /\ artists_groups'[Len(ag) + 1].ended = en
                /\ mlast'.inserted]_vars

\* The stint ('2001', null) has been refined by ('2001-06-15', null): still
\* one row, with the longer raw begin and its normalized date.
C22_Witness ==
    /\ mlast.updated
    /\ mlast.begin_was = Raw2001
    /\ mlast.end_was = NoDate
    /\ Len(artists_groups) = 1
    /\ IF Len(artists_groups) = 1
       THEN /\ artists_groups[1].begin_raw = Raw2001_06_15
            /\ artists_groups[1].begin_date = <<2001, 6, 15>>
            /\ artists_groups[1].end_raw = NoDate
       ELSE FALSE

\* C23: the begin_raw and the end_raw of a stint row are only ever replaced
\* by a strictly longer string of which the previous value is a prefix (or
\* set from null); they are never shortened, cleared or replaced by a string
\* that does not extend them.
C23_RawDatesOnlyExtended ==
    [][\A i \in DOMAIN artists_groups :
          /\ \/ artists_groups'[i].begin_raw = artists_groups[i].begin_raw
             \/ /\ Len(artists_groups'[i].begin_raw) > Len(artists_groups[i].begin_raw)
                /\ IsPrefix(artists_groups[i].begin_raw, artists_groups'[i].begin_raw)
          /\ \/ artists_groups'[i].end_raw = artists_groups[i].end_raw
             \/ /\ Len(artists_groups'[i].end_raw) > Len(artists_groups[i].end_raw)
                /\ IsPrefix(artists_groups[i].end_raw, artists_groups'[i].end_raw)]_vars

\* A call has extended both raw dates of a stint: the begin from '2001-06' to
\* '2001-06-15' and the end from null to '2005'.
C23_Witness ==
    /\ mlast.updated
    /\ mlast.begin_was = Raw2001_06
    /\ mlast.end_was = NoDate
    /\ mlast.id \in DOMAIN artists_groups
    /\ IF mlast.id \in DOMAIN artists_groups
       THEN /\ artists_groups[mlast.id].begin_raw = Raw2001_06_15
            /\ artists_groups[mlast.id].end_raw = Raw2005
       ELSE FALSE

(***************************************************************************)
(* Properties of the rate limit queue and rateLimitedFetch                 *)
(***************************************************************************)
\* C24: at most one request that passed through the rate limit queue is in
\* flight at any time: no caller is granted a slot while a request granted
\* before has not received its response.
C24_OneInFlight ==
    Cardinality({c \in Callers : rlc[c].st = "inflight"}) <= 1

\* C25: any two consecutive slot grants are at least minIntervalMs (1100 ms)
\* apart, and slots are granted in the order acquire was called, retries
\* included.
C25_GrantSpacingAndOrder ==
    [][rlg'.grants = rlg.grants + 1 =>
          /\ rlg.grants > 0 => rlg'.at - rlg.at >= 1100
          /\ rlg'.at = now'
          /\ \A c \in Callers :
                rlc[c].st = "queued" =>
                   /\ rlc[rlg'.caller].st = "queued"
                   /\ rlc[rlg'.caller].ticket <= rlc[c].ticket]_vars

\* A retry has got its slot, the third that was granted, exactly 1100 ms
\* after the slot of the other caller.
C25_Witness ==
    /\ rlg.grants = 3
    /\ rlg.at - rlg.prev = 1100
    /\ rlg.caller \in Callers
    /\ IF rlg.caller \in Callers
       THEN /\ rlc[rlg.caller].attempt = 1
            /\ rlc[rlg.caller].st = "inflight"
       ELSE FALSE

\* C26: a request answered with 503 is retried with a backoff of
\* min(2000 * 2^k, 60000) ms before jitter for retry k = 0, 1, ..., at most
\* five times, after which the call fails with an error; any other non-2xx
\* answer is returned to the caller after exactly one request, without retry.
C26_RetryOn503 ==
    [][\A c \in Callers :
          (rlc[c].st = "inflight" /\ rlc'[c].st # "inflight") =>
             LET k == rlc[c].attempt IN
             /\ rlc[c].requests = k + 1
             /\ rlc'[c].answer = "503" =>
                   IF k < 5
                   THEN /\ rlc'[c].st = "backoff"
                        /\ rlc'[c].backoff = Min(2000 * Pow(2, k), 60000)
                        /\ (rlc'[c].wake - now) * 10 >= rlc'[c].backoff * 8
                        /\ (rlc'[c].wake - now) * 10 <= rlc'[c].backoff * 12
                   ELSE rlc'[c].st = "threw"
             /\ rlc'[c].answer = "404" =>
                   /\ rlc'[c].st = "returned"
                   /\ rlc'[c].requests = rlc[c].requests
                   /\ UNCHANGED rlq]_vars

\* The sixth request of a call has been answered with 503 and the call has
\* failed; the last backoff was 32 000 ms.
C26_Witness ==
    /\ rlc["c1"].st = "threw"
    /\ rlc["c1"].answer = "503"
    /\ rlc["c1"].requests = 6
    /\ rlc["c1"].backoff = 32000

\* C27: getValidAccessToken returns the stored access token, with no refresh
\* call, exactly when the account has an access token and its expires_at is at
\* least now + 60 s. Otherwise it makes one refresh grant; a refresh that
\* succeeds persists the new access token, the new absolute expiry and the
\* refresh token (the one supplied with the grant if there is one, else the
\* old one) and returns the new access token; a refresh that fails returns
\* null and persists nothing. Either way the loop goes on to its next account.
C27_ValidAccessToken ==
    [][tlast'.calls # tlast.calls =>
          LET id == tlast'.account
              old == accounts[id]
              nowSec == now \div 1000
              valid == /\ old.access_token # Null
                       /\ old.expires_in # Null
                       /\ old.expires_in >= nowSec + 60
          IN /\ id = Head(taccounts).id
             /\ old = Head(taccounts).row
             /\ valid <=> (tlast'.refreshCalls = 0 /\ tlast'.returned = old.access_token)
             /\ valid => accounts' = accounts
             /\ ~valid =>
                   /\ tlast'.refreshCalls = 1
                   /\ IF tlast'.threw
                      THEN /\ tlast'.returned = Null
                           /\ accounts' = accounts
                      ELSE /\ tlast'.returned = tlast'.access_token
                           /\ tlast'.returned \notin {Null, old.access_token}
                           /\ accounts' =
                                 [accounts EXCEPT ![id] =
                                    [access_token |-> tlast'.access_token,
                                     refresh_token |->
                                        IF tlast'.refresh_token # Null
                                        THEN tlast'.refresh_token
                                        ELSE old.refresh_token,
                                     expires_in |-> nowSec + 3600]]
             /\ taccounts' = Tail(taccounts)]_vars

\* One second after the last moment at which its token counted as valid,
\* account a2 has been refreshed by a grant that supplied no refresh token,
\* in a cycle in which the refresh of a1 had failed.
C27_Witness ==
    /\ tlast.account = "a2"
    /\ tlast.refreshCalls = 1
    /\ tlast.returned = accounts["a2"].access_token
    /\ tlast.refresh_token = Null
    /\ accounts["a2"].refresh_token = 2
    /\ accounts["a2"].expires_in = 7141 + 3600
    /\ accounts["a1"].expires_in = 3600
    /\ taccounts = <<>>

\* C28: once the shutdown flag of a worker is set, the worker makes no
\* further claimJobs call, whatever point of its loop it was at when the flag
\* was set.
C28_NoClaimAfterShutdown ==
    [][\A w \in Workers :
          ~isRunning[w] => ~(wpc[w] # "claiming" /\ wpc'[w] = "claiming")]_vars

\* C28, second half: once the flag is set the worker's loop eventually exits.
C28_LoopExits ==
    \A w \in Workers : (~isRunning[w]) ~> (wpc[w] = "stopped")

(***************************************************************************)
(* Properties of the polls whose answer is observed                        *)
(***************************************************************************)
\* C29: on a same-uri poll that is not a wrap, accumulated_ms grows by
\* delta = progress_ms - last_progress_ms when the stored is_playing was true
\* and 0 < delta <= 30 000, by 30 000 when the stored is_playing was true and
\* delta > 30 000, and by 0 otherwise; last_seen_at, last_progress_ms and
\* is_playing are overwritten from the poll, started_at, the metadata snapshot
\* and the scrobbled flag are preserved. From (playing, 10 000) to
\* (paused, 18 000) the increment is 8 000, from there to (paused, 18 000) and
\* on to (playing, 18 000) it is 0, and from there to (playing, 26 000) it is
\* 8 000.
C29_Accumulation ==
    [][(polls' = polls + 1 /\ session # <<>> /\ presp'.kind = "track") =>
          LET old == session[1]
              delta == presp'.progress_ms - old.last_progress_ms
              wrap == /\ old.is_playing
                      /\ -delta > 15000
                      /\ -delta * 100 > 200000 * 35
              inc == IF old.is_playing /\ delta > 0 /\ delta <= 30000 THEN delta
                     ELSE IF old.is_playing /\ delta > 30000 THEN 30000
                     ELSE 0
              from(playing, progress) ==
                  old.is_playing = playing /\ old.last_progress_ms = progress
              to(playing, progress) ==
                  presp'.is_playing = playing /\ presp'.progress_ms = progress
          IN (presp'.uri = old.track_uri /\ ~wrap) =>
                /\ session' # <<>>
                /\ session'[1].accumulated_ms = old.accumulated_ms + inc
                /\ session'[1].last_seen_at = now'
                /\ session'[1].last_progress_ms = presp'.progress_ms
                /\ session'[1].is_playing = presp'.is_playing
                /\ session'[1].started_at = old.started_at
                /\ session'[1].track_metadata = old.track_metadata
                /\ session'[1].scrobbled = old.scrobbled
                /\ (from(TRUE, 10000) /\ to(FALSE, 18000)) => inc = 8000
                /\ (from(FALSE, 18000) /\ to(FALSE, 18000)) => inc = 0
                /\ (from(FALSE, 18000) /\ to(TRUE, 18000)) => inc = 0
                /\ (from(TRUE, 18000) /\ to(TRUE, 26000)) => inc = 8000]_vars

\* The fifth poll of one session that began at 10 000 ms has found the track
\* playing at 26 000 ms under another name: 16 000 ms are accumulated and the
\* session keeps the name it began with.
C29_Witness ==
    /\ polls = 5
    /\ presp.name = "retitled"
    /\ session # <<>>
    /\ IF session # <<>>
       THEN /\ session[1].started_at = now - 4 * 8000
            /\ session[1].accumulated_ms = 16000
            /\ session[1].last_progress_ms = 26000
            /\ session[1].is_playing
            /\ session[1].track_metadata.name = "title"
       ELSE FALSE

\* C30: on a poll that yields no track, an existing session row is left
\* completely unchanged (last_seen_at included) and no scrobble is emitted
\* unless the session is stale (now - last_seen_at > 1 800 000 ms); a stale
\* session is finalized and then deleted, whether or not its finalization
\* produced a scrobble; with no session the poll changes nothing.
C30_NothingPlaying ==
    [][(polls' = polls + 1 /\ presp'.kind = "none") =>
          IF session = <<>>
          THEN /\ session' = <<>>
               /\ UNCHANGED <<tracks, track_artists, track_albums, scrobbles, flast>>
          ELSE IF now' - session[1].last_seen_at > 1800000
          THEN /\ session' = <<>>
               /\ flast'.started_at = session[1].started_at
               /\ flast'.outcome # "none"
               /\ Len(scrobbles') \in {Len(scrobbles), Len(scrobbles) + 1}
               /\ (flast'.outcome = "inserted") <=> (Len(scrobbles') = Len(scrobbles) + 1)
          ELSE /\ session' = session
               /\ UNCHANGED <<tracks, track_artists, track_albums, scrobbles, flast>>]_vars

\* A session that had accumulated 60 000 ms was left alone by the poll that
\* found it idle for exactly 1 800 000 ms; the next poll without a track has
\* finalized it into a scrobble and deleted it.
C30_Witness ==
    /\ polls = 6
    /\ presp.kind = "none"
    /\ session = <<>>
    /\ flast.outcome = "inserted"
    /\ flast.started_at = now - 2 * 8000 - 1800000 - 8000
    /\ Len(scrobbles) = 1

\* C31: on a poll whose track uri differs from the session's, the old session
\* is finalized from its stored metadata snapshot (only if its scrobbled flag
\* is false) and then replaced by a fresh session for the new track with
\* started_at = now, accumulated_ms = 0, scrobbled = false and a new metadata
\* snapshot, whether or not the finalization produced a scrobble.
C31_TrackChange ==
    [][(polls' = polls + 1 /\ session # <<>> /\ presp'.kind = "track") =>
          LET old == session[1] IN
          presp'.uri # old.track_uri =>
             /\ session' # <<>>
             /\ session'[1].track_uri = presp'.uri
             /\ session'[1].started_at = now'
             /\ session'[1].last_seen_at = now'
             /\ session'[1].last_progress_ms = presp'.progress_ms
             /\ session'[1].is_playing = presp'.is_playing
             /\ session'[1].accumulated_ms = 0
             /\ ~session'[1].scrobbled
             /\ session'[1].track_metadata # old.track_metadata
             /\ session'[1].track_metadata.name = presp'.name
             /\ IF old.scrobbled
                THEN UNCHANGED <<flast, scrobbles>>
                ELSE /\ flast'.started_at = old.started_at
                     /\ flast'.outcome # "none"
                     /\ \/ scrobbles' = scrobbles
                        \/ /\ Len(scrobbles') = Len(scrobbles) + 1
                           /\ LET new == scrobbles'[Len(scrobbles')] IN
                              /\ new.played_at = old.started_at
                              /\ tracks'[new.track_id].isrc = old.track_metadata.isrc
                              /\ tracks'[new.track_id].duration_ms
                                    = old.track_metadata.duration_ms]_vars

\* The 40 s track was played for 20 s and scrobbled when the 90 s track came;
\* the 90 s track's session, too short for a scrobble, has just been replaced
\* by a fresh session of the 40 s track.
C31_Witness ==
    /\ polls = 4
    /\ presp.uri = "spotify:track:isrc"
    /\ flast.outcome = "below"
    /\ Len(scrobbles) = 1
    /\ session # <<>>
    /\ IF session # <<>>
       THEN /\ session[1].track_uri = "spotify:track:isrc"
            /\ session[1].started_at = now
            /\ session[1].accumulated_ms = 0
            /\ flast.started_at = now - 8000
       ELSE FALSE

C33_CursorAtBatchMaximum ==
    [][/\ (rpc = "finish" /\ rpc' = "idle") =>
             /\ rplays # <<>>
             /\ \E i \in DOMAIN rplays : cursor' = rplays[i].played_at
             /\ \A i \in DOMAIN rplays : cursor' >= rplays[i].played_at
       /\ (rpc = "idle" /\ runs' = runs + 1 /\ rpc' = "idle") => cursor' = cursor
       /\ cursor' # cursor => rpc = "finish"]_vars

\* A cycle over two plays has ended, the first play below the threshold and
\* the second with an error: nothing is stored and the cursor is at the
\* second play.
C33_Witness ==
    /\ rpc = "idle"
    /\ Len(rlast) = 2
    /\ scrobbles = <<>>
    /\ IF Len(rlast) = 2
       THEN /\ cursor = rlast[2].played_at
            /\ rlast[2].played_at - rlast[1].played_at = 8000
       ELSE FALSE

\* C34: the reconciler processes a batch in ascending played_at order and
\* estimates play i as min(track.duration_ms, played_at[i+1] - played_at[i])
\* for every item but the last and as track.duration_ms for the last item, so
\* every estimate lies in [0, track.duration_ms].
C34_EstimatesInOrder ==
    [][/\ (rpc = "idle" /\ rpc' = "loop") =>
             /\ Len(rbatch') = Len(rplays')
             /\ \A i \in DOMAIN rplays' : \A j \in DOMAIN rplays' :
                   i < j => rplays'[i].played_at <= rplays'[j].played_at
             /\ \A i \in DOMAIN rbatch' :
                   LET duration == IF rplays'[i].uri = "spotify:track:90s"
                                   THEN 90000 ELSE 40000
                       gap == IF i < Len(rplays')
                              THEN rplays'[i + 1].played_at - rplays'[i].played_at
                              ELSE duration
                   IN /\ rbatch'[i].uri = rplays'[i].uri
                      /\ rbatch'[i].playedAt = rplays'[i].played_at
                      /\ rbatch'[i].estimatedDurationMs
                            = IF gap < duration THEN gap ELSE duration
                      /\ rbatch'[i].estimatedDurationMs >= 0
                      /\ rbatch'[i].estimatedDurationMs <= duration
       /\ (rpc # "idle" /\ rbatch' # rbatch) => rbatch' = Tail(rbatch)
       /\ (rpc = "persist" /\ Len(scrobbles') > Len(scrobbles)) =>
             /\ scrobbles'[Len(scrobbles')].played_at = Head(rbatch).playedAt
             /\ scrobbles'[Len(scrobbles')].played_duration_ms
                   = Head(rbatch).estimatedDurationMs]_vars

\* A batch of two plays is being processed: the 90 s track, estimated at the
\* 50 s until the next play, and the 40 s track, estimated at its duration.
C34_Witness ==
    /\ rpc = "loop"
    /\ Len(rbatch) = 2
    /\ IF Len(rbatch) = 2
       THEN /\ rbatch[1].uri = "spotify:track:90s"
            /\ rbatch[1].estimatedDurationMs = 50000
            /\ rbatch[2].playedAt = rbatch[1].playedAt + 50000
            /\ rbatch[2].estimatedDurationMs = 40000
       ELSE FALSE

\* C35: terminal job states are absorbing. Once a job's status is succeeded
\* or failed, no step of any worker changes its status, attempts or
\* run_after; the row can only disappear (cleanupOldJobs).
C35_TerminalAbsorbing ==
    [][\A j \in JobIds :
          (jobs[j].status \in {"succeeded", "failed"} /\ j \in DOMAIN jobs') =>
             /\ jobs'[j].status = jobs[j].status
             /\ jobs'[j].attempts = jobs[j].attempts
             /\ jobs'[j].run_after = jobs[j].run_after]_vars

\* C36: in every reachable state of the queue each job has
\* attempts <= max_attempts, is failed only with attempts >= max_attempts,
\* and is running exactly when locked_by and locked_at are both set.
C36_JobRowInvariant ==
    \A j \in JobIds :
       /\ jobs[j].attempts <= jobs[j].max_attempts
       /\ jobs[j].status = "failed" => jobs[j].attempts >= jobs[j].max_attempts
       /\ jobs[j].status = "running" <=>
             (jobs[j].locked_by # "none" /\ jobs[j].locked_at # -1)

C38_DurationCap ==
    \A i \in DOMAIN scrobbles :
       /\ scrobbles[i].track_id \in DOMAIN tracks
       /\ scrobbles[i].played_duration_ms
             <= (IF tracks[scrobbles[i].track_id].isrc = 2 THEN 90000 ELSE 40000)

\* The fast loop has stored a play of the 40 s track whose session had
\* accumulated 55 s, with a duration of 40 s, and the reconciler has stored a
\* play as well.
C38_Witness ==
    /\ \E i \in DOMAIN scrobbles :
          /\ scrobbles[i].via = "currently-playing"
          /\ scrobbles[i].p = 55000
          /\ scrobbles[i].played_duration_ms = 40000
          /\ tracks[scrobbles[i].track_id].isrc = 1
    /\ \E k \in DOMAIN scrobbles : scrobbles[k].via = "recently-played"

\* C39: the stints of one (member, group) pair are pairwise incompatible: for
\* the begin or for the end both raw dates are set and neither is a prefix
\* of the other; so no two rows of a pair have the same (begin_raw, end_raw),
\* null dates included. This holds after sequential calls and when the calls
\* of two sync runs interleave.
C39_StintsIncompatible ==
    \A i \in DOMAIN artists_groups : \A j \in DOMAIN artists_groups :
       (i < j /\ artists_groups[i].member_id = artists_groups[j].member_id
              /\ artists_groups[i].group_id = artists_groups[j].group_id) =>
          \/ /\ artists_groups[i].begin_raw # <<>>
             /\ artists_groups[j].begin_raw # <<>>
             /\ ~PrefixRelated(artists_groups[i].begin_raw,
                               artists_groups[j].begin_raw)
          \/ /\ artists_groups[i].end_raw # <<>>
             /\ artists_groups[j].end_raw # <<>>
             /\ ~PrefixRelated(artists_groups[i].end_raw,
                               artists_groups[j].end_raw)

\* C40: when a cycle of the reconciler ends and has moved the cursor past its
\* batch, every play of the batch that met the threshold (an estimate of at
\* least 30 s or half of the 40 s the tracks last) has a scrobble of the
\* user and the play's track with played_at within 10 minutes of the play,
\* also when resolving or persisting the play raised an error.
C40_NoEligiblePlayDropped ==
    [][(rpc = "finish" /\ rpc' = "idle" /\ cursor' # cursor) =>
          \A i \in DOMAIN rplays :
             LET gap == IF i < Len(rplays)
                        THEN rplays[i + 1].played_at - rplays[i].played_at
                        ELSE 40000
                 estimate == IF gap < 40000 THEN gap ELSE 40000
             IN (estimate >= 30000 \/ estimate * 100 >= 40000 * 50) =>
                   \E k \in DOMAIN scrobbles' :
                      /\ scrobbles'[k].user_id = "u1"
                      /\ tracks'[scrobbles'[k].track_id].title = rplays[i].uri
                      /\ scrobbles'[k].played_at >= rplays[i].played_at - 600000
                      /\ scrobbles'[k].played_at <= rplays[i].played_at + 600000]_vars

====
